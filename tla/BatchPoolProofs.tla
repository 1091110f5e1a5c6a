-------------------------- MODULE BatchPoolProofs --------------------------
(***************************************************************************)
(* The batch_request pool, for every size: the error paths are unreachable,*)
(* a get is refused only when all but one of the objects are out, and the  *)
(* ring implements the first-in first-out free list.                       *)
(***************************************************************************)
EXTENDS BatchPool, Sequences, FiniteSetTheorems, TLAPS

(* Slot i lies between head and tail, going round the ring. *)
Occupied(i) ==
  IF pool.head <= pool.tail THEN pool.head <= i /\ i <= pool.tail
  ELSE pool.head <= i \/ i <= pool.tail

(* The slots from head to tail are filled and no others; no object is in   *)
(* two slots, or in a slot and out; and none is missing.                   *)
IInv ==
  /\ TypeOK
  /\ NoErrorPath
  /\ \A i \in Slot : pool.data[i] # NULL <=> Occupied(i)
  /\ \A i, j \in Slot : pool.data[i] # NULL /\ pool.data[i] = pool.data[j] => i = j
  /\ \A i \in Slot : pool.data[i] \notin out
  /\ IsFiniteSet(out) /\ Cardinality(out) \in Nat
  /\ Cardinality(out) + Filled = size

LEMMA WrapsAround ==
  ASSUME NEW n \in Nat \ {0}, NEW h \in 0 .. n - 1
  PROVE  /\ (h + 1) % n \in 0 .. n - 1
         /\ h + 1 = n => (h + 1) % n = 0
         /\ h + 1 # n => (h + 1) % n = h + 1
  <1>1. CASE h + 1 = n
    BY <1>1, SMT
  <1>2. CASE h + 1 # n
    BY <1>2, SMT
  <1> QED BY <1>1, <1>2

LEMMA InitIInv == Init => IInv
  <1> SUFFICES ASSUME Init PROVE IInv
    OBVIOUS
  <1>1. /\ pool.data = [i \in Slot |-> i]
        /\ pool.head = 0 /\ pool.tail = size - 1
        /\ pool \in [data : [Slot -> Object \cup {NULL}], head : Slot, tail : Slot]
    BY PoolSizeAssumption DEF Init, NewRing, Slot, Object
  <1>2. IsFiniteSet(out) /\ Cardinality(out) = 0
    BY FS_EmptySet DEF Init
  <1>3. TypeOK
    BY Zenon, <1>1 DEF TypeOK, Init
  <1> QED
    BY <1>1, <1>2, <1>3, PoolSizeAssumption
    DEF Init, IInv, NoErrorPath, Occupied, Filled, Slot, Object, NULL

(* What IInv says, with the fields of the ring named. *)
LEMMA GetIInv == IInv /\ get_batch_request => IInv'
  <1> SUFFICES ASSUME IInv, get_batch_request PROVE IInv'
    OBVIOUS
  <1> USE PoolSizeAssumption DEF Slot, Object, NULL
  <1>1. CASE AlmostEmpty(pool)
    <2>1. UNCHANGED <<pool, out, bug, lock>> /\ ret' = NULL
      BY <1>1 DEF get_batch_request
    <2>2. TypeOK'
      BY <2>1 DEF IInv, TypeOK
    <2> QED
      BY <2>1, <2>2 DEF IInv, NoErrorPath, Occupied, Filled
  <1>2. CASE ~AlmostEmpty(pool)
    <2> DEFINE d == pool.data  h == pool.head  t == pool.tail
               nh == (h + 1) % size
    <2>1. /\ d \in [Slot -> Object \cup {NULL}] /\ h \in Slot /\ t \in Slot
          /\ h # t /\ out \in SUBSET Object
      BY <1>2 DEF IInv, TypeOK, AlmostEmpty
    <2>2. d[h] # NULL /\ d[h] \in Object /\ d[h] \notin out
      BY <2>1 DEF IInv, Occupied
    <2>3. /\ nh \in Slot
          /\ h + 1 = size => nh = 0
          /\ h + 1 # size => nh = h + 1
      BY Zenon, <2>1, WrapsAround
    <2>4. /\ pool' = [data |-> [d EXCEPT ![h] = NULL], head |-> nh, tail |-> t]
          /\ out' = out \cup {d[h]} /\ ret' = d[h] /\ bug' = FALSE /\ lock' = "free"
      BY Zenon, <1>2, <2>2 DEF get_batch_request, TakeFront, IInv, NoErrorPath
    <2>5. /\ pool'.data = [d EXCEPT ![h] = NULL] /\ pool'.head = nh /\ pool'.tail = t
          /\ pool'.data \in [Slot -> Object \cup {NULL}]
      BY <2>1, <2>4
    <2>6. TypeOK' /\ NoErrorPath'
      BY Zenon, <2>1, <2>2, <2>3, <2>4, <2>5 DEF TypeOK, NoErrorPath
    <2>7. IsFiniteSet(out') /\ Cardinality(out') = Cardinality(out) + 1
      BY SMTT(30), <2>2, <2>4, FS_AddElement DEF IInv
    <2> HIDE DEF nh
    <2>8. Filled' = Filled - 1
      <3>1. Filled' = IF nh <= t THEN t - nh + 1 ELSE t - nh + 1 + size
        BY <2>5 DEF Filled
      <3>2. Filled = IF h <= t THEN t - h + 1 ELSE t - h + 1 + size
        BY DEF Filled
      <3> HIDE DEF d, h, t
      <3> QED BY <2>1, <2>3, <3>1, <3>2
    <2>9. \A i \in Slot : pool'.data[i] # NULL <=> Occupied(i)'
      <3> SUFFICES ASSUME NEW i \in Slot PROVE pool'.data[i] # NULL <=> Occupied(i)'
        OBVIOUS
      <3>1. Occupied(i)' <=> IF nh <= t THEN nh <= i /\ i <= t ELSE nh <= i \/ i <= t
        BY <2>5 DEF Occupied
      <3>2. d[i] # NULL <=> IF h <= t THEN h <= i /\ i <= t ELSE h <= i \/ i <= t
        BY DEF Occupied, IInv
      <3>3. pool'.data[i] = IF i = h THEN NULL ELSE d[i]
        BY <2>1, <2>5
      <3> HIDE DEF d, h, t
      <3> QED BY <2>1, <2>3, <3>1, <3>2, <3>3
    <2>10. \A i, j \in Slot : pool'.data[i] # NULL /\ pool'.data[i] = pool'.data[j] => i = j
      BY <2>1, <2>5 DEF IInv
    <2>11. \A i \in Slot : pool'.data[i] \notin out'
      <3> SUFFICES ASSUME NEW i \in Slot PROVE pool'.data[i] \notin out'
        OBVIOUS
      <3>1. pool'.data[i] = IF i = h THEN NULL ELSE d[i]
        BY <2>1, <2>5
      <3>2. i # h => d[i] # d[h] /\ d[i] \notin out
        BY <2>1, <2>2 DEF IInv
      <3>3. NULL \notin out /\ d[h] # NULL
        BY <2>1, <2>2
      <3> QED BY <2>4, <3>1, <3>2, <3>3
    <2>12. Filled \in Int
      BY <2>1 DEF Filled
    <2> QED
      BY <2>6, <2>7, <2>8, <2>9, <2>10, <2>11, <2>12 DEF IInv
  <1> QED BY <1>1, <1>2

(* A caller that returns an object finds the slot behind tail free: the    *)
(* object it holds is missing from the ring.                               *)
LEMMA ReturnAccepted ==
  ASSUME IInv, NEW req \in out
  PROVE  ~PutRefused(pool, size)
  <1> USE PoolSizeAssumption DEF Slot, Object, NULL
  <1> DEFINE h == pool.head  t == pool.tail
             nt == (t + 1) % size
  <1>1. h \in Slot /\ t \in Slot
    BY DEF IInv, TypeOK
  <1>2. /\ nt \in Slot
        /\ t + 1 = size => nt = 0
        /\ t + 1 # size => nt = t + 1
    BY <1>1, WrapsAround
  <1>3. Cardinality(out) # 0
    BY FS_EmptySet DEF IInv
  <1>4. Filled < size
    BY <1>1, <1>3 DEF IInv, Filled
  <1>5. nt # h /\ ~Occupied(nt)
    BY <1>1, <1>2, <1>4 DEF Filled, Occupied
  <1> QED
    BY <1>2, <1>5 DEF PutRefused, NewTail, IInv

LEMMA ReturnIInv ==
  ASSUME NEW req \in Object, IInv, return_batch_request(req)
  PROVE  IInv'
  <1> USE PoolSizeAssumption DEF Slot, Object, NULL
  <1> DEFINE d == pool.data  h == pool.head  t == pool.tail
             nt == (t + 1) % size
  <1>1. /\ d \in [Slot -> Object \cup {NULL}] /\ h \in Slot /\ t \in Slot
        /\ out \in SUBSET Object /\ req \in out
    BY DEF IInv, TypeOK, return_batch_request
  <1>2. /\ nt \in Slot
        /\ t + 1 = size => nt = 0
        /\ t + 1 # size => nt = t + 1
    BY <1>1, WrapsAround
  <1>3. ~PutRefused(pool, size)
    BY <1>1, ReturnAccepted
  <1>4. nt # h /\ d[nt] = NULL
    BY <1>3 DEF PutRefused, NewTail
  <1>5. /\ pool' = [data |-> [d EXCEPT ![nt] = req], head |-> h, tail |-> nt]
        /\ out' = out \ {req} /\ ret' = ret /\ bug' = FALSE /\ lock' = "free"
    BY <1>3 DEF return_batch_request, PutBack, NewTail, IInv, NoErrorPath
  <1>6. /\ pool'.data = [d EXCEPT ![nt] = req] /\ pool'.head = h /\ pool'.tail = nt
        /\ pool'.data \in [Slot -> Object \cup {NULL}]
    BY <1>1, <1>5
  <1>7. TypeOK' /\ NoErrorPath'
    BY Zenon, <1>1, <1>2, <1>5, <1>6 DEF TypeOK, NoErrorPath, IInv
  <1>8. IsFiniteSet(out') /\ Cardinality(out') = Cardinality(out) - 1
    BY Zenon, <1>1, <1>5, FS_RemoveElement DEF IInv
  <1>9. Cardinality(out') \in Nat
    BY <1>8, FS_CardinalityType
  <1> HIDE DEF nt
  <1>10. Filled' = Filled + 1
    <2>1. Filled' = IF h <= nt THEN nt - h + 1 ELSE nt - h + 1 + size
      BY <1>6 DEF Filled
    <2>2. Filled = IF h <= t THEN t - h + 1 ELSE t - h + 1 + size
      BY DEF Filled
    <2> HIDE DEF d, h, t
    <2> QED BY <1>1, <1>2, <1>4, <2>1, <2>2
  <1>11. \A i \in Slot : pool'.data[i] # NULL <=> Occupied(i)'
    <2> SUFFICES ASSUME NEW i \in Slot PROVE pool'.data[i] # NULL <=> Occupied(i)'
      OBVIOUS
    <2>1. Occupied(i)' <=> IF h <= nt THEN h <= i /\ i <= nt ELSE h <= i \/ i <= nt
      BY <1>6 DEF Occupied
    <2>2. d[i] # NULL <=> IF h <= t THEN h <= i /\ i <= t ELSE h <= i \/ i <= t
      BY DEF Occupied, IInv
    <2>3. pool'.data[i] = IF i = nt THEN req ELSE d[i]
      BY <1>1, <1>6
    <2>4. req # NULL
      BY <1>1
    <2> HIDE DEF d, h, t
    <2> QED BY <1>1, <1>2, <1>4, <2>1, <2>2, <2>3, <2>4
  <1>12. \A i, j \in Slot : pool'.data[i] # NULL /\ pool'.data[i] = pool'.data[j] => i = j
    BY <1>1, <1>4, <1>6 DEF IInv
  <1>13. \A i \in Slot : pool'.data[i] \notin out'
    BY <1>1, <1>5, <1>6 DEF IInv
  <1>14. Filled \in Int
    BY <1>1 DEF Filled
  <1> QED
    BY <1>7, <1>8, <1>9, <1>10, <1>11, <1>12, <1>13, <1>14 DEF IInv

LEMMA NextIInv == IInv /\ [Next]_vars => IInv'
  <1> SUFFICES ASSUME IInv, [Next]_vars PROVE IInv'
    OBVIOUS
  <1>1. CASE get_batch_request
    BY <1>1, GetIInv
  <1>2. CASE \E req \in Object : return_batch_request(req)
    BY <1>2, ReturnIInv
  <1>3. CASE UNCHANGED vars
    BY <1>3 DEF vars, IInv, TypeOK, NoErrorPath, Occupied, Filled
  <1> QED BY <1>1, <1>2, <1>3 DEF Next

(* The inductive invariant of the pool. *)
LEMMA PoolInv == Spec => []IInv
  BY InitIInv, NextIInv, PTL DEF Spec

(* BUG_ON(ret == NULL) of get_batch_request and the error paths of         *)
(* return_batch_request, which keep pool->lock, are unreachable.           *)
THEOREM PoolNoErrorPath == Spec => []NoErrorPath
  <1>1. IInv => NoErrorPath
    BY DEF IInv
  <1> QED BY <1>1, PoolInv, PTL

(* get_batch_request returns NULL only when size - 1 batch requests are in *)
(* use.                                                                    *)
THEOREM PoolRefusedOnlyWhenOut == Spec => []RefusedOnlyWhenOut
  <1>1. IInv => RefusedOnlyWhenOut
    <2> SUFFICES ASSUME IInv, AlmostEmpty(pool) PROVE Cardinality(out) = size - 1
      BY DEF RefusedOnlyWhenOut
    <2>1. Filled = 1
      BY DEF IInv, TypeOK, AlmostEmpty, Filled, Slot
    <2> QED BY <2>1, PoolSizeAssumption DEF IInv
  <1> QED BY <1>1, PoolInv, PTL

(* No object is missing. *)
NoneMissing == \A o \in Object : o \in out \/ \E i \in Slot : pool.data[i] = o

LEMMA NextNoneMissing ==
  ASSUME IInv, IInv', NoneMissing, [Next]_vars
  PROVE  NoneMissing'
  <1> USE PoolSizeAssumption DEF Slot, Object, NULL
  <1>1. CASE get_batch_request
    <2>1. CASE AlmostEmpty(pool)
      BY <1>1, <2>1 DEF get_batch_request, NoneMissing
    <2>2. CASE ~AlmostEmpty(pool)
      <3>1. /\ pool.data \in [Slot -> Object \cup {NULL}] /\ pool.head \in Slot
            /\ pool.data[pool.head] # NULL
        BY DEF IInv, TypeOK, Occupied
      <3>2. /\ pool'.data = [pool.data EXCEPT ![pool.head] = NULL]
            /\ out' = out \cup {pool.data[pool.head]}
        BY SMTT(30), <1>1, <2>2, <3>1 DEF get_batch_request, TakeFront
      <3> QED BY <3>1, <3>2 DEF NoneMissing
    <2> QED BY <2>1, <2>2
  <1>2. ASSUME NEW req \in Object, return_batch_request(req) PROVE NoneMissing'
    <2>1. ~PutRefused(pool, size)
      BY <1>2 DEF return_batch_request, IInv, NoErrorPath
    <2> DEFINE k == NewTail(pool, size)
    <2>2. /\ pool.data \in [Slot -> Object \cup {NULL}] /\ pool.tail \in Slot
          /\ k \in Slot /\ pool.data[k] = NULL
      <3>1. pool.data \in [Slot -> Object \cup {NULL}] /\ pool.tail \in Slot
        BY DEF IInv, TypeOK
      <3>2. k \in Slot
        BY <3>1, WrapsAround DEF NewTail
      <3> QED BY <2>1, <3>1, <3>2 DEF PutRefused
    <2>3. /\ pool'.data = [pool.data EXCEPT ![k] = req]
          /\ out' = out \ {req}
      BY <1>2, <2>1 DEF return_batch_request, PutBack
    <2> HIDE DEF k
    <2> QED BY <2>2, <2>3 DEF NoneMissing
  <1>3. CASE UNCHANGED vars
    BY <1>3 DEF vars, NoneMissing
  <1> QED BY <1>1, <1>2, <1>3 DEF Next

(* What debug_show_out_req reports is what is in use, for every pool size. *)
THEOREM PoolShownAreOut == Spec => []ShownAreOut
  <1>1. Init => NoneMissing
    BY PoolSizeAssumption DEF Init, NewRing, NoneMissing, Slot, Object
  <1>2. IInv /\ IInv' /\ NoneMissing /\ [Next]_vars => NoneMissing'
    BY NextNoneMissing
  <1>3. IInv /\ NoneMissing => ShownAreOut
    BY DEF IInv, TypeOK, NoneMissing, ShownAreOut, debug_show_out_req
  <1> QED BY <1>1, <1>2, <1>3, PoolInv, PTL DEF Spec

-----------------------------------------------------------------------------
(* The refinement of FreeList. *)

(* The free list the ring stands for is a sequence of objects. *)
FreeSeqOK ==
  /\ Filled \in Nat \ {0} /\ Filled <= size
  /\ FreeSeq \in Seq(Object) /\ Len(FreeSeq) = Filled
  /\ \A i \in 1 .. Filled : /\ SlotAt(i - 1) \in Slot
                            /\ FreeSeq[i] = pool.data[SlotAt(i - 1)]
                            /\ FreeSeq[i] # NULL

LEMMA FreeSeqIsSeq == IInv => FreeSeqOK
  <1> SUFFICES ASSUME IInv PROVE FreeSeqOK
    OBVIOUS
  <1> USE PoolSizeAssumption DEF Slot, Object, NULL
  <1> DEFINE d == pool.data  h == pool.head  t == pool.tail
  <1>1. d \in [Slot -> Object \cup {NULL}] /\ h \in Slot /\ t \in Slot
    BY DEF IInv, TypeOK
  <1>2. Filled = IF h <= t THEN t - h + 1 ELSE t - h + 1 + size
    BY DEF Filled
  <1>3. Filled \in Nat \ {0} /\ Filled <= size
    <2> HIDE DEF d, h, t
    <2> QED BY <1>1, <1>2
  <1>4. ASSUME NEW i \in 1 .. Filled
        PROVE  SlotAt(i - 1) \in Slot /\ d[SlotAt(i - 1)] \in Object /\ d[SlotAt(i - 1)] # NULL
    <2>1. SlotAt(i - 1) = IF h + (i - 1) < size THEN h + (i - 1) ELSE h + (i - 1) - size
      BY DEF SlotAt
    <2>2. \A k \in Slot : d[k] # NULL <=> IF h <= t THEN h <= k /\ k <= t ELSE h <= k \/ k <= t
      BY DEF Occupied, IInv
    <2> HIDE DEF d, h, t
    <2>3. SlotAt(i - 1) \in Slot
      BY <1>1, <1>2, <1>3, <1>4, <2>1
    <2>4. LET k == SlotAt(i - 1)
          IN  IF h <= t THEN h <= k /\ k <= t ELSE h <= k \/ k <= t
      BY <1>1, <1>2, <1>3, <1>4, <2>1
    <2> QED BY <1>1, <2>2, <2>3, <2>4
  <1>5. FreeSeq = [i \in 1 .. Filled |-> d[SlotAt(i - 1)]]
    BY DEF FreeSeq
  <1> HIDE DEF d, h, t
  <1>6. FreeSeq \in [1 .. Filled -> Object]
    BY <1>4, <1>5
  <1>7. FreeSeq \in Seq(Object) /\ Len(FreeSeq) = Filled
    BY <1>3, <1>6
  <1>8. \A i \in 1 .. Filled : FreeSeq[i] = d[SlotAt(i - 1)]
    BY <1>5
  <1> QED BY <1>3, <1>4, <1>7, <1>8 DEF d, FreeSeqOK

LEMMA InitRefined == Init => FL!Init
  <1> SUFFICES ASSUME Init PROVE FL!Init
    OBVIOUS
  <1> USE PoolSizeAssumption
  <1>1. /\ pool.data = [i \in Slot |-> i]
        /\ pool.head = 0 /\ pool.tail = size - 1
    BY DEF Init, NewRing, Slot
  <1>2. Filled = size /\ \A k \in Slot : SlotAt(k) = k
    BY <1>1 DEF Filled, SlotAt, Slot
  <1>3. FreeSeq = [i \in 1 .. size |-> i - 1]
    BY <1>1, <1>2 DEF FreeSeq, Slot
  <1> QED BY <1>3 DEF Init, FL!Init, Object, NULL

(* Two sequences with the same length and the same elements are equal. *)
LEMMA SameSeq ==
  ASSUME NEW S, NEW s \in Seq(S), NEW u \in Seq(S),
         Len(s) = Len(u), \A i \in 1 .. Len(s) : s[i] = u[i]
  PROVE  s = u
  OBVIOUS

LEMMA GetRefined ==
  ASSUME IInv, IInv', get_batch_request
  PROVE  FL!Get \/ FL!Deny
  <1> USE PoolSizeAssumption DEF Slot, Object, NULL
  <1>1. /\ Filled \in Nat \ {0} /\ FreeSeq \in Seq(Object) /\ Len(FreeSeq) = Filled
        /\ \A i \in 1 .. Filled : FreeSeq[i] = pool.data[SlotAt(i - 1)]
    BY FreeSeqIsSeq DEF FreeSeqOK
  <1>2. pool.head \in Slot /\ pool.tail \in Slot
    BY DEF IInv, TypeOK
  <1>3. CASE AlmostEmpty(pool)
    <2>1. Filled = 1
      BY <1>2, <1>3 DEF AlmostEmpty, Filled
    <2>2. UNCHANGED <<pool, out>> /\ ret' = NULL
      BY <1>3 DEF get_batch_request
    <2>3. FreeSeq' = FreeSeq
      BY <2>2 DEF FreeSeq, Filled, SlotAt
    <2> QED BY <1>1, <2>1, <2>2, <2>3 DEF FL!Deny
  <1>4. CASE ~AlmostEmpty(pool)
    <2> DEFINE d == pool.data  h == pool.head  t == pool.tail
               nh == (h + 1) % size
    <2>1. /\ nh \in Slot
          /\ h + 1 = size => nh = 0
          /\ h + 1 # size => nh = h + 1
      BY <1>2, WrapsAround
    <2>2. /\ d \in [Slot -> Object \cup {NULL}] /\ h # t
          /\ d[h] # NULL
      BY <1>2, <1>4 DEF IInv, TypeOK, AlmostEmpty, Occupied
    <2>3. /\ pool' = [data |-> [d EXCEPT ![h] = NULL], head |-> nh, tail |-> t]
          /\ out' = out \cup {d[h]} /\ ret' = d[h]
      BY <1>4, <2>2 DEF get_batch_request, TakeFront
    <2>4. pool'.data = [d EXCEPT ![h] = NULL] /\ pool'.head = nh /\ pool'.tail = t
      BY <2>3
    <2>5. Filled = IF h <= t THEN t - h + 1 ELSE t - h + 1 + size
      BY DEF Filled
    <2>6. Filled' = IF nh <= t THEN t - nh + 1 ELSE t - nh + 1 + size
      BY <2>4 DEF Filled
    <2>7. \A k \in Nat : SlotAt(k) = IF h + k < size THEN h + k ELSE h + k - size
      BY DEF SlotAt
    <2>8. \A k \in Nat : SlotAt(k)' = IF nh + k < size THEN nh + k ELSE nh + k - size
      BY <2>4 DEF SlotAt
    <2>9. /\ FreeSeq' \in Seq(Object) /\ Len(FreeSeq') = Filled'
          /\ \A i \in 1 .. Filled' : /\ SlotAt(i - 1)' \in Slot
                                     /\ FreeSeq'[i] = pool'.data[SlotAt(i - 1)']
                                     /\ FreeSeq'[i] # NULL
      <3>1. FreeSeqOK'
        BY FreeSeqIsSeq, PTL
      <3> QED BY <3>1 DEF FreeSeqOK
    <2>h. h \in Slot /\ t \in Slot
      BY <1>2
    <2> HIDE DEF d, h, t, nh
    <2>10. Filled > 1 /\ Filled' = Filled - 1
      BY <2>h, <2>1, <2>2, <2>5, <2>6
    <2>11. ASSUME NEW i \in 1 .. Filled'
           PROVE  FreeSeq'[i] = FreeSeq[i + 1]
      <3>1. i \in Nat \ {0} /\ i + 1 \in 1 .. Filled
        BY <1>1, <2>10
      <3>2. FreeSeq[i + 1] = d[SlotAt(i)]
        BY SMTT(30), <1>1, <3>1 DEF d
      <3>3. SlotAt(i - 1)' = SlotAt(i) /\ SlotAt(i) # h
        <4>1. SlotAt(i - 1)' = IF nh + (i - 1) < size THEN nh + (i - 1) ELSE nh + (i - 1) - size
          BY <2>8, <3>1
        <4>2. SlotAt(i) = IF h + i < size THEN h + i ELSE h + i - size
          BY <2>7, <3>1
        <4> QED BY <2>h, <2>1, <2>2, <2>5, <3>1, <4>1, <4>2
      <3>4. SlotAt(i) \in Slot
        BY <2>9, <2>11, <3>3
      <3> QED BY <2>2, <2>4, <2>9, <3>2, <3>3, <3>4
    <2>12. FreeSeq' = Tail(FreeSeq)
      <3>1. Tail(FreeSeq) \in Seq(Object) /\ Len(Tail(FreeSeq)) = Filled - 1
        BY <1>1, <2>10
      <3>2. \A i \in 1 .. Filled - 1 : Tail(FreeSeq)[i] = FreeSeq[i + 1]
        BY <1>1, <2>10
      <3>3. Len(FreeSeq') = Len(Tail(FreeSeq)) /\ Len(FreeSeq') = Filled'
        BY <2>9, <2>10, <3>1
      <3>4. \A i \in 1 .. Len(FreeSeq') : FreeSeq'[i] = Tail(FreeSeq)[i]
        BY <2>10, <2>11, <3>2, <3>3
      <3> QED BY Zenon, <2>9, <3>1, <3>3, <3>4, SameSeq
    <2>13. Head(FreeSeq) = d[h]
      <3>1. SlotAt(0) = h
        BY <2>h, <2>7
      <3>2. Head(FreeSeq) = FreeSeq[1]
        BY <1>1
      <3> QED BY <1>1, <3>1, <3>2 DEF d
    <2> QED BY <1>1, <2>3, <2>10, <2>12, <2>13 DEF FL!Get
  <1> QED BY <1>3, <1>4

LEMMA ReturnRefined ==
  ASSUME IInv, IInv', NEW req \in Object, return_batch_request(req)
  PROVE  FL!Return(req)
  <1> USE PoolSizeAssumption DEF Slot, Object, NULL
  <1>1. /\ Filled \in Nat \ {0} /\ FreeSeq \in Seq(Object) /\ Len(FreeSeq) = Filled
        /\ \A i \in 1 .. Filled : /\ FreeSeq[i] = pool.data[SlotAt(i - 1)]
                                  /\ SlotAt(i - 1) \in Slot
    BY FreeSeqIsSeq DEF FreeSeqOK
  <1> DEFINE d == pool.data  h == pool.head  t == pool.tail
             nt == (t + 1) % size
  <1>2. d \in [Slot -> Object \cup {NULL}] /\ h \in Slot /\ t \in Slot /\ req \in out
    BY DEF IInv, TypeOK, return_batch_request
  <1>3. /\ nt \in Slot
        /\ t + 1 = size => nt = 0
        /\ t + 1 # size => nt = t + 1
    BY <1>2, WrapsAround
  <1>4. ~PutRefused(pool, size)
    BY <1>2, ReturnAccepted
  <1>5. nt # h
    BY <1>4 DEF PutRefused, NewTail
  <1>6. /\ pool' = [data |-> [d EXCEPT ![nt] = req], head |-> h, tail |-> nt]
        /\ out' = out \ {req} /\ ret' = ret
    BY <1>4 DEF return_batch_request, PutBack, NewTail
  <1>7. pool'.data = [d EXCEPT ![nt] = req] /\ pool'.head = h /\ pool'.tail = nt
    BY <1>6
  <1>8. Filled = IF h <= t THEN t - h + 1 ELSE t - h + 1 + size
    BY DEF Filled
  <1>9. Filled' = IF h <= nt THEN nt - h + 1 ELSE nt - h + 1 + size
    BY <1>7 DEF Filled
  <1>10. \A k \in Nat : SlotAt(k) = IF h + k < size THEN h + k ELSE h + k - size
    BY DEF SlotAt
  <1>11. \A k \in Nat : SlotAt(k)' = SlotAt(k)
    BY <1>7 DEF SlotAt
  <1>12. /\ FreeSeq' \in Seq(Object) /\ Len(FreeSeq') = Filled'
         /\ \A i \in 1 .. Filled' : /\ SlotAt(i - 1)' \in Slot
                                    /\ FreeSeq'[i] = pool'.data[SlotAt(i - 1)']
                                    /\ FreeSeq'[i] # NULL
    <2>1. FreeSeqOK'
      BY FreeSeqIsSeq, PTL
    <2> QED BY <2>1 DEF FreeSeqOK
  <1> HIDE DEF d, h, t, nt
  <1>13. Filled' = Filled + 1
    BY <1>2, <1>3, <1>5, <1>8, <1>9
  <1>14. ASSUME NEW i \in 1 .. Filled
         PROVE  FreeSeq'[i] = FreeSeq[i]
    <2>1. i - 1 \in Nat /\ i \in 1 .. Filled'
      BY <1>1, <1>13
    <2>2. SlotAt(i - 1) # nt
      <3>1. SlotAt(i - 1) = IF h + (i - 1) < size THEN h + (i - 1) ELSE h + (i - 1) - size
        BY <1>10, <2>1
      <3> QED BY SMTT(30), <1>1, <1>2, <1>3, <1>5, <1>8, <2>1, <3>1
    <2>3. FreeSeq[i] = d[SlotAt(i - 1)] /\ SlotAt(i - 1) \in Slot
      BY <1>1, <2>1 DEF d
    <2> QED BY <1>2, <1>7, <1>11, <1>12, <2>1, <2>2, <2>3
  <1>15. FreeSeq'[Filled + 1] = req
    <2>1. SlotAt(Filled) = nt
      <3>1. SlotAt(Filled) = IF h + Filled < size THEN h + Filled ELSE h + Filled - size
        BY <1>1, <1>10
      <3> QED BY SMTT(30), <1>1, <1>2, <1>3, <1>5, <1>8, <3>1
    <2>2. FreeSeq'[Filled + 1] = pool'.data[SlotAt(Filled)]
      BY SMTT(30), <1>1, <1>11, <1>12, <1>13
    <2> QED BY <1>2, <1>3, <1>7, <2>1, <2>2
  <1>16. FreeSeq' = Append(FreeSeq, req)
    <2>1. Append(FreeSeq, req) \in Seq(Object) /\ Len(Append(FreeSeq, req)) = Filled + 1
      BY <1>1
    <2>2. \A i \in 1 .. Filled + 1 :
            Append(FreeSeq, req)[i] = IF i = Filled + 1 THEN req ELSE FreeSeq[i]
      BY <1>1
    <2>3. \A i \in 1 .. Filled + 1 : FreeSeq'[i] = Append(FreeSeq, req)[i]
      BY SMTT(30), <1>1, <1>14, <1>15, <2>2
    <2> QED BY Zenon, <1>12, <1>13, <2>1, <2>3, SameSeq
  <1> QED BY <1>2, <1>6, <1>16 DEF FL!Return

(* The pool of rdma_library.c implements the first-in first-out free list  *)
(* whose last object is never given out, for every pool size.              *)
THEOREM PoolRefinesFreeList == Spec => FreeListRefined
  <1>1. IInv /\ IInv' /\ [Next]_vars => [FL!Next]_(FL!vars)
    <2> SUFFICES ASSUME IInv, IInv', [Next]_vars PROVE [FL!Next]_(FL!vars)
      OBVIOUS
    <2>1. CASE get_batch_request
      BY <2>1, GetRefined DEF FL!Next
    <2>2. CASE \E req \in Object : return_batch_request(req)
      BY <2>2, ReturnRefined DEF FL!Next
    <2>3. CASE UNCHANGED vars
      BY <2>3 DEF vars, FL!vars, FreeSeq, Filled, SlotAt
    <2> QED BY <2>1, <2>2, <2>3 DEF Next
  <1> QED BY <1>1, InitRefined, PoolInv, PTL DEF Spec, FreeListRefined, FL!Spec
=============================================================================
