-------------------------- MODULE ScullFamily_proofs --------------------------
(***************************************************************************)
(* Proofs about the four drivers of ScullFamily, for any processes,        *)
(* settings and sizes, and one memory map: the comments of the properties  *)
(* say why two of them need a lock that the drivers do not have.           *)
(*                                                                         *)
(* The file operations are summed up by one relation, FileEffect, and the  *)
(* operations about a mapping by another, Mapping; the invariant is proved *)
(* over these two.                                                         *)
(***************************************************************************)
EXTENDS ScullFamily, FiniteSetTheorems, TLAPS

(* The one memory map involved: no two processes map the device.           *)
OneMapper == \E m : Mappers \subseteq {m}

VmaSteps == {"mmap", "vma_open", "vma_close"}
Neutral  == Locations \ VmaSteps

(* The copies of a call can be divided by, and a write fits.               *)
CallsFit ==
    \A p \in Proc : /\ call[p].quantum # 0 /\ call[p].qset # 0
                    /\ pc[p] = "write" => f_pos[p] + call[p].count <= MaxPos

TypeInv == PagesTypeOK /\ CallsFit

(* vmas is the number of mappings, at every step of the counting: while an *)
(* increment is under way nothing is mapped yet, and while a decrement is  *)
(* nothing is mapped any more.                                             *)
MapsInv ==
    /\ mapped \subseteq Mappers
    /\ kind = "scullc" => mapped = {} /\ \A p \in Proc : pc[p] \notin VmaSteps
    /\ \A p \in Proc : pte[p] # {} => p \in mapped
    /\ \A p \in Proc : pc[p] \in VmaSteps => p \in Mappers \ mapped
    /\ \A p \in Proc : pc[p] = "vma_open" => seen[p] = 0 /\ vmas = 0
    /\ \A p \in Proc : pc[p] = "vma_close" => seen[p] = 1 /\ vmas = 1
    /\ (\A p \in Proc : pc[p] \notin {"vma_open", "vma_close"}) =>
           vmas = IF mapped = {} THEN 0 ELSE 1

(* A trim under way has the semaphore, without which no page is entered in *)
(* a table; and none was when it tested vmas.                              *)
SemInv ==
    /\ SemaphoreIsGivenBack
    /\ \A p \in Proc : pc[p] = "freeing" => sem = p /\ \A q \in Proc : pte[q] = {}

FamilyInv == TypeInv /\ MapsInv /\ SemInv /\ MappedPagesAreTheDevices
-----------------------------------------------------------------------------
(* Arithmetic.                                                             *)
LEMMA DivMod ==
    ASSUME NEW a \in Nat, NEW b \in Nat, b # 0
    PROVE  a \div b \in Nat /\ a % b \in 0 .. b - 1
  OBVIOUS

LEMMA Product ==
    ASSUME NEW a \in Nat, NEW b \in Nat, a # 0, b # 0
    PROVE  a * b \in Nat /\ a * b # 0
  OBVIOUS

LEMMA OrdersAre ==
    ASSUME PagesTypeOK
    PROVE  /\ order \in Nat /\ qset \in Nat \ {0} /\ 2 ^ order \in Nat
           /\ d_order \in Nat /\ d_qset \in Nat \ {0} /\ 2 ^ d_order \in Nat /\ 2 ^ d_order # 0
           /\ 2 ^ 0 \in Nat
<1>1. ASSUME NEW set \in Settings
      PROVE  set[1] \in Nat /\ set[2] \in Nat \ {0} /\ 2 ^ set[1] \in Nat
  <2>1. set[1] \in Nat /\ set[2] \in Nat \ {0}
    BY PagesAssumption
  <2>2. QED
    BY <2>1, PagesAssumption
<1>2. QED
  BY <1>1, PagesAssumption DEF PagesTypeOK
-----------------------------------------------------------------------------
(* Where a call stands, by its copies of the quantum and the qset.         *)
LEMMA Place ==
    ASSUME TypeInv, NEW p \in Proc
    PROVE  /\ item(p) \in Nat /\ s_pos(p) \in Nat
           /\ q_pos(p) \in Nat /\ Transfer(p) \in 0 .. call[p].count
<1> DEFINE q == call[p].quantum
           s == call[p].qset
<1>1. /\ f_pos[p] \in Nat /\ call[p].count \in Nat
      /\ q \in Nat /\ q # 0 /\ s \in Nat /\ s # 0
  BY PagesAssumption DEF TypeInv, CallsFit, PagesTypeOK
<1> HIDE DEF q, s
<1>2. q * s \in Nat /\ q * s # 0
  BY <1>1, Product
<1>3. f_pos[p] \div (q * s) \in Nat /\ f_pos[p] % (q * s) \in Nat
  BY <1>1, <1>2, DivMod
<1>4. (f_pos[p] % (q * s)) \div q \in Nat
  BY <1>1, <1>3, DivMod
<1>5. f_pos[p] % q \in 0 .. q - 1
  BY <1>1, DivMod
<1>6. Least(call[p].count, q - (f_pos[p] % q)) \in 0 .. call[p].count
  BY <1>1, <1>5 DEF Least
<1>7. QED
  BY <1>3, <1>4, <1>5, <1>6 DEF item, s_pos, q_pos, Transfer, q, s

(* A list that keeps the blocks there were.                                *)
Grows(new) ==
    /\ new \in Seq(Seq(Nat)) /\ new # <<>>
    /\ \A i \in DOMAIN list : \A s \in DOMAIN list[i] :
           list[i][s] # 0 =>
               i \in DOMAIN new /\ s \in DOMAIN new[i] /\ new[i][s] # 0

LEMMA FollowIs ==
    ASSUME PagesTypeOK, NEW n \in Nat
    PROVE  /\ Follow(n) \in Seq(Seq(Nat)) /\ n + 1 \in DOMAIN Follow(n)
           /\ Grows(Follow(n))
<1> DEFINE k == IF n < Len(list) THEN Len(list) ELSE n + 1
<1>1. list \in Seq(Seq(Nat)) /\ k \in Nat /\ k >= Len(list) /\ n + 1 \in 1 .. k
  BY DEF PagesTypeOK
<1>2. Follow(n) = [i \in 1 .. k |-> IF i \in DOMAIN list THEN list[i] ELSE <<>>]
  BY DEF Follow
<1> HIDE DEF k
<1>3. <<>> \in Seq(Nat)
  OBVIOUS
<1>4. \A i \in 1 .. k : (IF i \in DOMAIN list THEN list[i] ELSE <<>>) \in Seq(Nat)
  BY <1>1, <1>3
<1>5. Follow(n) \in Seq(Seq(Nat)) /\ DOMAIN Follow(n) = 1 .. k
  BY <1>1, <1>2, <1>4
<1>6. DOMAIN list \subseteq 1 .. k
  BY <1>1
<1>7. QED
  BY <1>1, <1>2, <1>5, <1>6 DEF Grows

(* A list that an array of one item was set in, which keeps the blocks.    *)
LEMMA SetArray ==
    ASSUME PagesTypeOK, NEW new \in Seq(Seq(Nat)), Grows(new), NEW i \in DOMAIN new,
           NEW a \in Seq(Nat),
           \A s \in DOMAIN new[i] : new[i][s] # 0 => s \in DOMAIN a /\ a[s] # 0
    PROVE  [new EXCEPT ![i] = a] \in Seq(Seq(Nat)) /\ Grows([new EXCEPT ![i] = a])
<1> DEFINE made == [new EXCEPT ![i] = a]
<1>1. made \in Seq(Seq(Nat)) /\ DOMAIN made = DOMAIN new
  OBVIOUS
<1>2. made[i] = a /\ \A j \in DOMAIN new \ {i} : made[j] = new[j]
  OBVIOUS
<1> HIDE DEF made
<1>3. made # <<>>
  BY <1>1
<1>4. ASSUME NEW j \in DOMAIN list, NEW s \in DOMAIN list[j], list[j][s] # 0
      PROVE  j \in DOMAIN made /\ s \in DOMAIN made[j] /\ made[j][s] # 0
  <2>1. j \in DOMAIN new /\ s \in DOMAIN new[j] /\ new[j][s] # 0
    BY <1>4 DEF Grows
  <2>2. QED
    BY <1>1, <1>2, <2>1
<1>5. QED
  BY <1>1, <1>3, <1>4 DEF made, Grows
-----------------------------------------------------------------------------
(* What a step of a process that is not about its mapping does to the rest. *)
FileEffect(p) ==
    /\ UNCHANGED <<kind, object, maps>>
    /\ pc[p] \in Neutral /\ pc[p] # "wild" /\ \E l \in Neutral : GoTo(p, l)
    /\ \/ /\ pc[p] # "freeing" /\ pc'[p] # "freeing" /\ Grows(list')
          /\ UNCHANGED sem \/ (sem' = p /\ pc'[p] = "wild" /\ sem = NoProc)
       \/ /\ UNCHANGED list /\ pc[p] # "freeing" /\ pc'[p] = "freeing"
          /\ sem = NoProc /\ sem' = p /\ (vmas = 0 \/ kind = "scullc")
       \/ UNCHANGED <<list, sem>> /\ pc[p] = "freeing" /\ pc'[p] = "wild"
       \/ pc[p] = "freeing" /\ pc'[p] = "idle" /\ sem' = NoProc

(* How a read or a write can end.                                          *)
Moved(p) ==
    /\ Moves(p) /\ Return(p) /\ UNCHANGED sem /\ size' \in 0 .. MaxPos
    /\ \E n \in Int : f_pos[p] + n \in 0 .. MaxPos /\ f_pos' = [f_pos EXCEPT ![p] = @ + n]

Calling == {"read", "write", "aio_read", "aio_write"}

LEMMA GrowsItself == ASSUME PagesTypeOK PROVE Grows(list)
  BY DEF Grows, PagesTypeOK

LEMMA Outcome ==
    ASSUME TypeInv, NEW p \in Proc, pc[p] \in Calling, sem = NoProc,
           UNCHANGED <<params, d_order, d_qset, maps>>, Grows(list'),
           Nothing(p) \/ GoesWild(p) \/ Moved(p)
    PROVE  TypeInv' /\ FileEffect(p)
<1>1. \E l \in {"idle", "defer", "wild"} :
          GoTo(p, l) /\ (UNCHANGED sem \/ (sem' = p /\ l = "wild"))
  BY DEF Nothing, GoesWild, Moved, Return
<1>2. PICK l \in {"idle", "defer", "wild"} :
          GoTo(p, l) /\ (UNCHANGED sem \/ (sem' = p /\ l = "wild"))
  BY <1>1
<1>3. /\ call' = [call EXCEPT ![p] = Idle] /\ size' \in 0 .. MaxPos
      /\ f_pos' \in [Proc -> 0 .. MaxPos] /\ \A q \in Proc \ {p} : f_pos'[q] = f_pos[q]
  <2>1. f_pos \in [Proc -> 0 .. MaxPos] /\ size \in 0 .. MaxPos
    BY DEF TypeInv, PagesTypeOK
  <2>2. CASE Nothing(p) \/ GoesWild(p)
    BY <2>1, <2>2 DEF Nothing, GoesWild, Return
  <2>3. CASE Moved(p)
    BY <2>1, <2>3 DEF Moved, Return
  <2>4. QED
    BY <2>2, <2>3
<1>4. pc' \in [Proc -> Locations] /\ pc'[p] = l /\ \A q \in Proc \ {p} : pc'[q] = pc[q]
  BY <1>2 DEF GoTo, TypeInv, PagesTypeOK, Locations
<1>5. /\ call' \in [Proc -> [quantum : Nat, qset : Nat, count : Nat]]
      /\ call'[p] = Idle /\ \A q \in Proc \ {p} : call'[q] = call[q]
  BY <1>3 DEF TypeInv, PagesTypeOK, Idle
<1>6. sem' \in Proc \cup {NoProc}
  BY <1>2 DEF TypeInv, PagesTypeOK
<1>7. PagesTypeOK'
  BY <1>3, <1>4, <1>5, <1>6 DEF TypeInv, PagesTypeOK, Grows, params, maps
<1>8. CallsFit'
  BY <1>2, <1>3, <1>4, <1>5 DEF TypeInv, CallsFit, Idle
<1>9. FileEffect(p)
  BY <1>2, <1>4 DEF FileEffect, Neutral, Locations, VmaSteps, Calling, params
<1>10. QED
  BY <1>7, <1>8, <1>9 DEF TypeInv

LEMMA ReadStep ==
    ASSUME TypeInv, NEW p \in Proc, NEW beyond \in BOOLEAN, ReadUpTo(p, beyond),
           ~beyond => f_pos[p] <= size
    PROVE  TypeInv' /\ FileEffect(p)
<1> DEFINE l == Follow(item(p))
           n == Least(Transfer(p), size - f_pos[p])
<1>1. PagesTypeOK /\ item(p) \in Nat /\ Transfer(p) \in Nat
  <2>1. PagesTypeOK /\ call[p].count \in Nat
    BY DEF TypeInv, PagesTypeOK
  <2>2. QED
    BY <2>1, Place
<1>2. Grows(l) /\ Grows(list)
  BY <1>1, FollowIs, GrowsItself
<1>3. pc[p] \in Calling /\ sem = NoProc /\ UNCHANGED <<params, d_order, d_qset, maps>>
  BY DEF ReadUpTo, Calling
<1>4. /\ list' = list \/ list' = l
      /\ \/ Nothing(p) \/ GoesWild(p)
         \/ /\ ~beyond /\ Moves(p) /\ Return(p) /\ UNCHANGED <<sem, size>>
            /\ f_pos' = [f_pos EXCEPT ![p] = @ + n]
  BY DEF ReadUpTo
<1>5. ~beyond => n \in Nat /\ f_pos[p] + n \in 0 .. MaxPos /\ size \in 0 .. MaxPos
  <2>1. f_pos[p] \in 0 .. MaxPos /\ size \in 0 .. MaxPos /\ MaxPos \in Nat
    BY <1>1, PagesAssumption DEF PagesTypeOK
  <2>2. QED
    BY <1>1, <2>1 DEF Least
<1> HIDE DEF l, n
<1>6. Nothing(p) \/ GoesWild(p) \/ Moved(p)
  BY <1>4, <1>5 DEF Moved
<1>7. QED
  BY <1>2, <1>3, <1>4, <1>6, Outcome

(* A block is as long as the driver's allocator makes it.                  *)
LEMMA BlockIs ==
    ASSUME PagesTypeOK, NEW i \in Nat
    PROVE  Block(i) \in Nat
<1>1. 2 ^ ItemOrder(i) \in Nat /\ object \in Nat
  BY OrdersAre DEF ItemOrder, PagesTypeOK
<1>2. QED
  BY <1>1 DEF Block

LEMMA WriteStep ==
    ASSUME TypeInv, NEW p \in Proc, Write(p), pc[p] = "write" \/ pc[p] = "aio_write"
    PROVE  TypeInv' /\ FileEffect(p)
<1> DEFINE i == item(p) + 1
           l == Follow(item(p))
           a == IF l[i] = <<>> THEN [s \in 1 .. call[p].qset |-> 0] ELSE l[i]
           s == s_pos(p) + 1
           made == [l EXCEPT ![i] = a]
           n == Transfer(p)
           length == IF a[s] = 0 THEN Block(i) ELSE a[s]
           set == [made EXCEPT ![i][s] = length]
<1>1. /\ PagesTypeOK /\ item(p) \in Nat /\ s_pos(p) \in Nat
      /\ call[p].qset \in Nat /\ call[p].count \in Nat /\ Transfer(p) \in 0 .. call[p].count
      /\ f_pos[p] \in 0 .. MaxPos /\ size \in 0 .. MaxPos
  <2>1. PagesTypeOK
    BY DEF TypeInv
  <2>2. QED
    BY <2>1, Place DEF PagesTypeOK
<1>2. l \in Seq(Seq(Nat)) /\ i \in DOMAIN l /\ Grows(l) /\ Grows(list)
  BY <1>1, FollowIs, GrowsItself
<1>3. pc[p] \in Calling /\ sem = NoProc /\ UNCHANGED <<params, d_order, d_qset, maps>>
  BY DEF Write, Calling
<1>4. /\ list' = list \/ list' = l \/ list' = made \/ (s <= Len(a) /\ list' = set)
      /\ \/ Nothing(p) \/ GoesWild(p)
         \/ /\ Moves(p) /\ Return(p) /\ UNCHANGED sem /\ f_pos' = [f_pos EXCEPT ![p] = @ + n]
            /\ size' = IF size < f_pos'[p] THEN f_pos'[p] ELSE size
  BY DEF Write
<1>5. i \in Nat /\ s \in Nat /\ s # 0
  BY <1>1
<1> HIDE DEF l, i, s, n
<1>6. a \in Seq(Nat) /\ \A t \in DOMAIN l[i] : l[i][t] # 0 => t \in DOMAIN a /\ a[t] # 0
  <2>1. l[i] \in Seq(Nat)
    BY <1>2
  <2>2. [t \in 1 .. call[p].qset |-> 0] \in Seq(Nat)
    BY <1>1
  <2>3. QED
    BY <2>1, <2>2
<1> HIDE DEF a
<1>7. made \in Seq(Seq(Nat)) /\ Grows(made) /\ DOMAIN made = DOMAIN l /\ made[i] = a
  BY <1>1, <1>2, <1>6, SetArray
<1>8. s <= Len(a) => Grows(set)
  <2> HAVE s <= Len(a)
  <2>1. s \in DOMAIN a /\ a[s] \in Nat /\ Block(i) \in Nat
    <3>1. Block(i) \in Nat
      BY <1>1, <1>5, BlockIs
    <3>2. a \in Seq(Nat) /\ s \in 1 .. Len(a)
      BY <1>5, <1>6
    <3>3. QED
      BY <3>1, <3>2
  <2>2. length \in Nat /\ (a[s] # 0 => length # 0)
    BY <2>1
  <2> HIDE DEF length
  <2> DEFINE b == [a EXCEPT ![s] = length]
  <2>3. b \in Seq(Nat) /\ \A t \in DOMAIN a : a[t] # 0 => t \in DOMAIN b /\ b[t] # 0
    BY <1>6, <2>1, <2>2
  <2>4. set = [made EXCEPT ![i] = b]
    BY <1>2, <1>7
  <2> HIDE DEF b, made
  <2>5. QED
    BY <1>1, <1>2, <1>7, <2>3, <2>4, SetArray
<1>9. Grows(list')
  <2> HIDE DEF made, length
  <2>1. QED
    BY <1>2, <1>4, <1>7, <1>8
<1>10. Moves(p) => n \in Nat /\ f_pos[p] + n \in 0 .. MaxPos
  <2> HAVE Moves(p)
  <2>1. f_pos[p] + call[p].count <= MaxPos
    BY DEF Moves, TypeInv, CallsFit
  <2>2. QED
    BY <1>1, <2>1, PagesAssumption DEF n
<1>11. Nothing(p) \/ GoesWild(p) \/ Moved(p)
  <2> SUFFICES ASSUME Moves(p), Return(p), UNCHANGED sem,
                      f_pos' = [f_pos EXCEPT ![p] = @ + n],
                      size' = IF size < f_pos'[p] THEN f_pos'[p] ELSE size
               PROVE  Moved(p)
    BY <1>4
  <2>1. f_pos'[p] = f_pos[p] + n
    BY DEF TypeInv, PagesTypeOK
  <2>2. n \in Int /\ f_pos[p] + n \in 0 .. MaxPos
    BY <1>10
  <2>3. size' \in 0 .. MaxPos
    BY <1>1, <2>1, <2>2
  <2>4. QED
    BY <2>2, <2>3 DEF Moved
<1>12. QED
  BY <1>3, <1>9, <1>11, Outcome

-----------------------------------------------------------------------------
(* A step to another place that starts no write and leaves the copies of   *)
(* the calls alone.                                                        *)
LEMMA MoveType ==
    ASSUME TypeInv, NEW p \in Proc, NEW l \in Locations, GoTo(p, l),
           l = "write" => pc[p] = "write",
           UNCHANGED <<kind, object, call>>,
           <<order', qset'>> \in Settings, <<d_order', d_qset'>> \in Settings,
           size' \in 0 .. MaxPos, list' \in Seq(Seq(Nat)), list' # <<>>,
           sem' \in Proc \cup {NoProc}, vmas' \in Int, mapped' \subseteq Proc,
           seen' \in [Proc -> Int], pte' \in [Proc -> SUBSET (Nat \X Nat)],
           f_pos' \in [Proc -> 0 .. MaxPos],
           \A q \in Proc : pc[q] = "write" => f_pos'[q] = f_pos[q]
    PROVE  TypeInv'
<1>1. pc' \in [Proc -> Locations] /\ \A q \in Proc : pc'[q] = IF q = p THEN l ELSE pc[q]
  BY DEF TypeInv, PagesTypeOK, GoTo
<1>2. PagesTypeOK'
  BY <1>1 DEF TypeInv, PagesTypeOK
<1>3. CallsFit'
  BY <1>1 DEF TypeInv, CallsFit
<1>4. QED
  BY <1>2, <1>3 DEF TypeInv

(* The steps that only move a process, or the position of its file.        *)
LEMMA QuietStep ==
    ASSUME TypeInv, NEW p \in Proc, NEW l \in Neutral, GoTo(p, l),
           l \notin {"write", "freeing"}, pc[p] \in Neutral \ {"wild", "freeing"},
           UNCHANGED <<kind, object, device, maps, sem, call>>,
           <<order', qset'>> \in Settings, f_pos' \in [Proc -> 0 .. MaxPos],
           \A q \in Proc : pc[q] = "write" => f_pos'[q] = f_pos[q]
    PROVE  TypeInv' /\ FileEffect(p)
<1>1. l \in Locations /\ pc' \in [Proc -> Locations] /\ pc'[p] = l
  BY DEF TypeInv, PagesTypeOK, GoTo, Neutral
<1>2. TypeInv'
  <2>1. PagesTypeOK
    BY DEF TypeInv
  <2>2. /\ <<d_order', d_qset'>> \in Settings /\ size' \in 0 .. MaxPos
        /\ list' \in Seq(Seq(Nat)) /\ list' # <<>> /\ sem' \in Proc \cup {NoProc}
        /\ vmas' \in Int /\ mapped' \subseteq Proc /\ seen' \in [Proc -> Int]
        /\ pte' \in [Proc -> SUBSET (Nat \X Nat)]
    BY <2>1 DEF PagesTypeOK, device, maps
  <2>3. QED
    BY <1>1, <2>2, MoveType
<1>3. Grows(list')
  BY GrowsItself DEF TypeInv, device
<1>4. FileEffect(p)
  BY <1>1, <1>3 DEF FileEffect
<1>5. QED
  BY <1>2, <1>4

LEMMA OpenStep ==
    ASSUME TypeInv, NEW p \in Proc,
           (\E flags \in Flags : Open(p, flags)) \/ Release(p) \/ DeferOp(p) \/ DoDeferredOp(p)
               \/ NoReturn(p) \/ Ioctl(p) \/ (\E n \in 0 .. MaxPos : Seek(p, n))
    PROVE  TypeInv' /\ FileEffect(p)
<1> USE DEF Neutral, Locations, VmaSteps
<1>1. /\ f_pos \in [Proc -> 0 .. MaxPos] /\ pc \in [Proc -> Locations] /\ MaxPos \in Nat
      /\ <<order, qset>> \in Settings
  BY PagesAssumption DEF TypeInv, PagesTypeOK
<1>2. CASE \E flags \in Flags : Open(p, flags)
  BY <1>1, <1>2, QuietStep DEF Open, params
<1>3. CASE Release(p)
  BY <1>1, <1>3, QuietStep DEF Release, params
<1>4. CASE DeferOp(p) \/ DoDeferredOp(p) \/ NoReturn(p)
  BY <1>1, <1>4, QuietStep DEF DeferOp, DoDeferredOp, NoReturn, params
<1>5. CASE Ioctl(p)
  <2>1. <<order', qset'>> \in Settings
    BY <1>5, PagesAssumption DEF Ioctl
  <2>2. GoTo(p, "idle")
    BY <1>1, <1>5 DEF Ioctl, GoTo
  <2>3. QED
    BY <1>1, <1>5, <2>1, <2>2, QuietStep DEF Ioctl
<1>6. CASE \E n \in 0 .. MaxPos : Seek(p, n)
  <2>1. GoTo(p, "idle")
    BY <1>1, <1>6 DEF Seek, GoTo
  <2>2. QED
    BY <1>1, <1>6, <2>1, QuietStep DEF Seek, params
<1>7. QED
  BY <1>2, <1>3, <1>4, <1>5, <1>6

(* The steps that give up a call or take the semaphore.                    *)
LEMMA InterruptedStep ==
    ASSUME TypeInv, NEW p \in Proc, Interrupted(p)
    PROVE  TypeInv' /\ FileEffect(p)
<1>1. PICK l \in {"closed", "idle", "defer"} : GoTo(p, l)
  BY DEF Interrupted
<1>2. pc' \in [Proc -> Locations] /\ \A q \in Proc : pc'[q] = IF q = p THEN l ELSE pc[q]
  BY <1>1 DEF TypeInv, PagesTypeOK, GoTo, Locations
<1>3. /\ call' \in [Proc -> [quantum : Nat, qset : Nat, count : Nat]]
      /\ \A q \in Proc : call'[q] = IF q = p THEN Idle ELSE call[q]
  BY DEF Interrupted, TypeInv, PagesTypeOK, Idle
<1>4. PagesTypeOK'
  BY <1>2, <1>3 DEF Interrupted, TypeInv, PagesTypeOK, params, device, maps
<1>5. CallsFit'
  BY <1>2, <1>3 DEF Interrupted, TypeInv, CallsFit, Idle
<1>6. Grows(list')
  BY GrowsItself DEF TypeInv, Interrupted, device
<1>7. FileEffect(p)
  BY <1>1, <1>2, <1>6 DEF FileEffect, Interrupted, Neutral, Locations, VmaSteps, params
<1>8. QED
  BY <1>4, <1>5, <1>7 DEF TypeInv

LEMMA EnterStep ==
    ASSUME TypeInv, NEW p \in Proc, NEW op \in Calling, NEW n \in Nat, Enter(p, op, n),
           op = "write" => Small(p, n)
    PROVE  TypeInv' /\ FileEffect(p)
<1>1. pc' \in [Proc -> Locations] /\ \A q \in Proc : pc'[q] = IF q = p THEN op ELSE pc[q]
  BY DEF Enter, TypeInv, PagesTypeOK, GoTo, Locations, Calling
<1> DEFINE new == [quantum |-> 2 ^ d_order, qset |-> d_qset, count |-> n]
<1>2. /\ new \in [quantum : Nat, qset : Nat, count : Nat]
      /\ new.quantum # 0 /\ new.qset # 0 /\ new.count = n
  BY OrdersAre DEF TypeInv
<1> HIDE DEF new
<1>3. /\ call' \in [Proc -> [quantum : Nat, qset : Nat, count : Nat]]
      /\ \A q \in Proc : call'[q] = IF q = p THEN new ELSE call[q]
  BY <1>2 DEF Enter, TypeInv, PagesTypeOK, new
<1>4. PagesTypeOK'
  BY <1>1, <1>3 DEF Enter, TypeInv, PagesTypeOK, params, device, maps
<1>5. CallsFit'
  BY <1>1, <1>2, <1>3 DEF Enter, TypeInv, CallsFit, Small
<1>6. Grows(list')
  BY GrowsItself DEF TypeInv, Enter, device
<1>7. FileEffect(p)
  BY <1>1, <1>6 DEF FileEffect, Enter, Neutral, Locations, VmaSteps, params, Calling
<1>8. QED
  BY <1>4, <1>5, <1>7 DEF TypeInv

LEMMA TrimStep ==
    ASSUME TypeInv, NEW p \in Proc,
           (TrimAnyway(p) /\ kind = "scullc") \/ TrimUnlessMapped(p) \/ TrimFree(p)
    PROVE  TypeInv' /\ FileEffect(p)
<1> USE DEF Neutral, Locations, VmaSteps
<1>1. /\ PagesTypeOK /\ f_pos \in [Proc -> 0 .. MaxPos] /\ pc \in [Proc -> Locations]
      /\ <<order, qset>> \in Settings /\ <<d_order, d_qset>> \in Settings
      /\ size \in 0 .. MaxPos /\ list \in Seq(Seq(Nat)) /\ list # <<>> /\ vmas \in Int
      /\ mapped \subseteq Proc /\ seen \in [Proc -> Int]
      /\ pte \in [Proc -> SUBSET (Nat \X Nat)] /\ sem \in Proc \cup {NoProc} /\ MaxPos \in Nat
  BY PagesAssumption DEF TypeInv, PagesTypeOK
<1>2. CASE TrimUnlessMapped(p) /\ vmas # 0
  BY <1>1, <1>2, QuietStep DEF TrimUnlessMapped, params
<1>3. CASE \/ TrimAnyway(p) /\ kind = "scullc"
           \/ TrimUnlessMapped(p) /\ vmas = 0
  <2>1. /\ pc[p] = "trim" /\ sem = NoProc /\ GoTo(p, "freeing") /\ sem' = p
        /\ UNCHANGED <<params, device, maps, f_pos, call>> /\ (vmas = 0 \/ kind = "scullc")
    BY <1>3 DEF TrimAnyway, TrimUnlessMapped
  <2>2. TypeInv'
    BY <1>1, <2>1, MoveType DEF params, device, maps
  <2>3. FileEffect(p)
    BY <1>1, <2>1 DEF FileEffect, params, device, GoTo
  <2>4. QED
    BY <2>2, <2>3
<1>4. CASE TrimFree(p)
  <2>1. /\ pc[p] = "freeing" /\ UNCHANGED <<params, maps, f_pos, call>>
        /\ \/ GoTo(p, "wild") /\ UNCHANGED <<device, sem>>
           \/ /\ GoTo(p, "idle") /\ sem' = NoProc
              /\ size' = 0 /\ list' = << <<>> >> /\ d_order' = order /\ d_qset' = qset
    BY <1>4 DEF TrimFree
  <2>2. << <<>> >> \in Seq(Seq(Nat)) /\ << <<>> >> # <<>>
    OBVIOUS
  <2>3. CASE GoTo(p, "wild") /\ UNCHANGED <<device, sem>>
    <3>1. TypeInv'
      BY <1>1, <2>1, <2>3, MoveType DEF params, device, maps
    <3>2. FileEffect(p)
      BY <1>1, <2>1, <2>3 DEF FileEffect, params, device, GoTo
    <3>3. QED
      BY <3>1, <3>2
  <2>4. CASE /\ GoTo(p, "idle") /\ sem' = NoProc
             /\ size' = 0 /\ list' = << <<>> >> /\ d_order' = order /\ d_qset' = qset
    <3>1. /\ list' \in Seq(Seq(Nat)) /\ list' # <<>> /\ size' \in 0 .. MaxPos
          /\ <<d_order', d_qset'>> \in Settings /\ <<order', qset'>> \in Settings
          /\ sem' \in Proc \cup {NoProc} /\ UNCHANGED <<kind, object, call, maps, f_pos>>
      BY <1>1, <2>1, <2>2, <2>4 DEF params
    <3>2. TypeInv'
      <4> UNCHANGED <<vmas, seen, mapped, pte>>
        BY <3>1 DEF maps
      <4>1. GoTo(p, "idle") /\ "idle" \in Locations
        BY <2>4
      <4>2. QED
        BY <1>1, <3>1, <4>1, MoveType
    <3>3. FileEffect(p)
      BY <1>1, <2>1, <2>4 DEF FileEffect, params, GoTo
    <3>4. QED
      BY <3>2, <3>3
  <2>5. QED
    BY <2>1, <2>3, <2>4
<1>5. QED
  BY <1>2, <1>3, <1>4

(* A process that goes wild while it has the semaphore.                    *)
LEMMA WildStep ==
    ASSUME TypeInv, NEW p \in Proc, pc[p] \in Neutral \ {"wild", "freeing"}, sem = NoProc,
           GoesWild(p), UNCHANGED <<params, d_order, d_qset, list, maps>>
    PROVE  TypeInv' /\ FileEffect(p)
<1>1. pc' \in [Proc -> Locations] /\ \A q \in Proc : pc'[q] = IF q = p THEN "wild" ELSE pc[q]
  BY DEF GoesWild, TypeInv, PagesTypeOK, GoTo, Locations
<1>2. /\ call' \in [Proc -> [quantum : Nat, qset : Nat, count : Nat]]
      /\ \A q \in Proc : call'[q] = IF q = p THEN Idle ELSE call[q]
  BY DEF GoesWild, TypeInv, PagesTypeOK, Idle
<1>3. PagesTypeOK'
  BY <1>1, <1>2 DEF GoesWild, TypeInv, PagesTypeOK, params, maps
<1>4. CallsFit'
  BY <1>1, <1>2 DEF GoesWild, TypeInv, CallsFit, Idle
<1>5. Grows(list')
  BY GrowsItself DEF TypeInv
<1>6. FileEffect(p)
  BY <1>1, <1>5 DEF FileEffect, GoesWild, Neutral, Locations, VmaSteps, params
<1>7. QED
  BY <1>3, <1>4, <1>6 DEF TypeInv

LEMMA ShowStep ==
    ASSUME TypeInv, NEW p \in Proc,
           Show(p) \/ \E n \in 0 .. MaxPos : FaultNoPage(p, n)
    PROVE  TypeInv' /\ FileEffect(p)
<1> USE DEF Neutral, Locations, VmaSteps
<1>1. CASE GoesWild(p)
  BY <1>1, WildStep DEF Show, FaultNoPage
<1>2. CASE Show(p) /\ UNCHANGED <<sem, pc, call, f_pos, size>>
  <2>1. GoTo(p, pc[p]) /\ pc[p] \in {"closed", "idle"}
    BY <1>2 DEF Show, GoTo, TypeInv, PagesTypeOK
  <2>2. /\ <<order', qset'>> \in Settings /\ f_pos' \in [Proc -> 0 .. MaxPos]
        /\ UNCHANGED <<kind, object, device, maps, f_pos>>
    BY <1>2 DEF Show, TypeInv, PagesTypeOK, params, device
  <2>3. QED
    BY <1>2, <2>1, <2>2, QuietStep
<1>3. QED
  BY <1>1, <1>2 DEF Show, FaultNoPage

-----------------------------------------------------------------------------
(* With one mapping, a vmas of 0 means that no page table has an entry.    *)
LEMMA NoVmasNoPages ==
    ASSUME OneMapper, TypeInv, MapsInv, vmas = 0 \/ kind = "scullc"
    PROVE  \A q \in Proc : pte[q] = {}
<1>1. mapped = {}
  <2>1. CASE kind = "scullc"
    BY <2>1 DEF MapsInv
  <2>2. CASE \E q \in Proc : pc[q] \in {"vma_open", "vma_close"}
    <3>1. PICK q \in Proc : pc[q] \in {"vma_open", "vma_close"}
      BY <2>2
    <3>2. QED
      BY <3>1 DEF OneMapper, MapsInv, VmaSteps
  <2>3. CASE vmas = 0 /\ \A q \in Proc : pc[q] \notin {"vma_open", "vma_close"}
    BY <2>3 DEF MapsInv
  <2>4. QED
    BY <2>1, <2>2, <2>3
<1>2. QED
  BY <1>1 DEF MapsInv

(* A step that is not about a mapping keeps the account of the mappings,   *)
(* of the semaphore and of the pages.                                      *)
LEMMA FileEffectKeeps ==
    ASSUME OneMapper, FamilyInv, NEW p \in Proc, FileEffect(p)
    PROVE  MapsInv' /\ SemInv' /\ MappedPagesAreTheDevices'
<1>1. /\ PagesTypeOK /\ MapsInv /\ SemInv /\ MappedPagesAreTheDevices
      /\ UNCHANGED <<kind, vmas, seen, mapped, pte>>
  BY DEF FamilyInv, TypeInv, FileEffect, maps
<1>2. PICK l \in Neutral : GoTo(p, l)
  BY DEF FileEffect
<1>3. \A q \in Proc : pc'[q] = IF q = p THEN l ELSE pc[q]
  BY <1>1, <1>2 DEF GoTo, PagesTypeOK
<1>4. pc[p] \notin VmaSteps /\ l \notin VmaSteps
  BY DEF FileEffect, Neutral
<1>5. MapsInv'
  BY <1>1, <1>3, <1>4 DEF MapsInv, VmaSteps
<1>6. CASE /\ pc[p] # "freeing" /\ pc'[p] # "freeing" /\ Grows(list')
           /\ UNCHANGED sem \/ (sem' = p /\ pc'[p] = "wild" /\ sem = NoProc)
  <2>1. SemInv'
    BY <1>1, <1>3, <1>6, PagesAssumption DEF SemInv, SemaphoreIsGivenBack, PagesTypeOK, FileEffect
  <2>2. MappedPagesAreTheDevices'
    BY <1>1, <1>6 DEF MappedPagesAreTheDevices, Grows, PagesTypeOK
  <2>3. QED
    BY <1>5, <2>1, <2>2
<1>7. CASE /\ UNCHANGED list /\ pc[p] # "freeing" /\ pc'[p] = "freeing"
           /\ sem = NoProc /\ sem' = p /\ (vmas = 0 \/ kind = "scullc")
  <2>1. \A q \in Proc : pte[q] = {}
    BY <1>1, <1>7, NoVmasNoPages DEF FamilyInv
  <2>2. SemInv'
    BY <1>1, <1>3, <1>7, <2>1, PagesAssumption DEF SemInv, SemaphoreIsGivenBack
  <2>3. QED
    BY <1>1, <1>5, <2>1, <2>2 DEF MappedPagesAreTheDevices
<1>8. CASE UNCHANGED <<list, sem>> /\ pc[p] = "freeing" /\ pc'[p] = "wild"
  <2>1. SemInv'
    BY <1>1, <1>3, <1>8 DEF SemInv, SemaphoreIsGivenBack, PagesTypeOK
  <2>2. QED
    BY <1>1, <1>5, <1>8, <2>1 DEF MappedPagesAreTheDevices
<1>9. CASE pc[p] = "freeing" /\ pc'[p] = "idle" /\ sem' = NoProc
  <2>1. sem = p /\ \A q \in Proc : pte[q] = {}
    BY <1>1, <1>9 DEF SemInv
  <2>2. SemInv'
    BY <1>1, <1>3, <1>9, <2>1 DEF SemInv, SemaphoreIsGivenBack
  <2>3. QED
    BY <1>1, <1>5, <2>1, <2>2 DEF MappedPagesAreTheDevices
<1>10. QED
  BY <1>6, <1>7, <1>8, <1>9 DEF FileEffect

-----------------------------------------------------------------------------
(* The steps about the mapping of a process.                               *)
Mapping(p) == Mmap(p) \/ VmaOpen(p) \/ VmaClose(p) \/ \E n \in 0 .. MaxPos : Fault(p, n)

LEMMA MappingLeaves ==
    ASSUME NEW p \in Proc, Mapping(p)
    PROVE  /\ UNCHANGED <<params, device, sem, f_pos, call>>
           /\ pc[p] \in VmaSteps \cup {"idle"}
           /\ \E l \in VmaSteps \cup {"idle", "wild"} : GoTo(p, l) \/ (l = pc[p] /\ UNCHANGED pc)
  BY DEF Mapping, Mmap, VmaOpen, VmaClose, VmaCount, Fault, VmaSteps

LEMMA MappingType ==
    ASSUME TypeInv, NEW p \in Proc, Mapping(p)
    PROVE  TypeInv'
<1>1. /\ PagesTypeOK /\ seen \in [Proc -> Int] /\ pte \in [Proc -> SUBSET (Nat \X Nat)]
      /\ vmas \in Int /\ mapped \subseteq Proc /\ pc \in [Proc -> Locations]
  BY DEF TypeInv, PagesTypeOK
<1>2. UNCHANGED <<params, device, sem, f_pos, call>>
  BY MappingLeaves
<1>3. PICK l \in VmaSteps \cup {"idle", "wild"} : GoTo(p, l)
  BY <1>1, MappingLeaves DEF GoTo
<1>4. /\ seen' \in [Proc -> Int] /\ vmas' \in Int /\ mapped' \subseteq Proc
      /\ pte' \in [Proc -> SUBSET (Nat \X Nat)]
  <2>1. CASE Mmap(p)
    BY <1>1, <2>1 DEF Mmap, maps
  <2>2. CASE VmaOpen(p)
    BY <1>1, <2>2 DEF VmaOpen, VmaCount
  <2>3. CASE VmaClose(p)
    BY <1>1, <2>3 DEF VmaClose
  <2>4. CASE \E n \in 0 .. MaxPos : Fault(p, n)
    <3>1. PICK n \in 0 .. MaxPos : Fault(p, n)
      BY <2>4
    <3>2. n \div d_qset \in Nat /\ n % d_qset \in Nat
      <4>1. n \in Nat /\ d_qset \in Nat /\ d_qset # 0
        BY <1>1, OrdersAre, PagesAssumption
      <4>2. QED
        BY <4>1
    <3>3. pte' = pte \/ pte' = [pte EXCEPT ![p] = @ \cup {<<(n \div d_qset) + 1, n % d_qset>>}]
      BY <3>1 DEF Fault
    <3>4. UNCHANGED <<seen, vmas, mapped>>
      BY <3>1 DEF Fault
    <3>5. QED
      BY <1>1, <3>2, <3>3, <3>4
  <2>5. QED
    BY <2>1, <2>2, <2>3, <2>4 DEF Mapping
<1>5. l \in Locations /\ l # "write"
  BY DEF Locations, VmaSteps
<1>6. /\ <<order', qset'>> \in Settings /\ <<d_order', d_qset'>> \in Settings
      /\ size' \in 0 .. MaxPos /\ list' \in Seq(Seq(Nat)) /\ list' # <<>>
      /\ sem' \in Proc \cup {NoProc} /\ f_pos' \in [Proc -> 0 .. MaxPos]
      /\ UNCHANGED <<kind, object, call, f_pos>>
  BY <1>1, <1>2 DEF PagesTypeOK, params, device
<1>7. QED
  BY <1>3, <1>4, <1>5, <1>6, MoveType

LEMMA MappingKeepsMaps ==
    ASSUME OneMapper, FamilyInv, NEW p \in Proc, Mapping(p), kind # "scullc"
    PROVE  MapsInv'
<1>1. /\ PagesTypeOK /\ MapsInv /\ UNCHANGED kind
      /\ pc \in [Proc -> Locations] /\ seen \in [Proc -> Int]
      /\ pte \in [Proc -> SUBSET (Nat \X Nat)] /\ mapped \subseteq Proc
  BY MappingLeaves DEF FamilyInv, TypeInv, PagesTypeOK, params
<1>2. PICK m : Mappers \subseteq {m}
  BY DEF OneMapper
<1>3. CASE Mmap(p)
  BY <1>1, <1>3 DEF Mmap, MapsInv, GoTo, maps, VmaSteps
<1>4. CASE VmaOpen(p)
  <2>1. CASE VmaCount(p, "mmap", "vma_open")
    <3>1. p \in Mappers \ mapped /\ mapped = {} /\ \A q \in Proc : pc[q] \in VmaSteps => q = p
      BY <1>1, <1>2, <2>1 DEF VmaCount, MapsInv, VmaSteps
    <3>2. vmas = 0
      BY <1>1, <2>1, <3>1 DEF VmaCount, MapsInv, VmaSteps
    <3>3. QED
      BY <1>1, <2>1, <3>1, <3>2 DEF VmaCount, MapsInv, VmaSteps, GoTo
  <2>2. CASE pc[p] = "vma_open"
    <3>1. p \in Mappers \ mapped /\ mapped = {} /\ \A q \in Proc : pc[q] \in VmaSteps => q = p
      BY <1>1, <1>2, <2>2 DEF MapsInv, VmaSteps
    <3>2. vmas = 0 /\ seen[p] = 0
      BY <1>1, <2>2 DEF MapsInv
    <3>3. QED
      BY <1>1, <1>4, <2>2, <3>1, <3>2 DEF VmaOpen, VmaCount, MapsInv, VmaSteps, GoTo
  <2>3. QED
    BY <1>4, <2>1, <2>2 DEF VmaOpen
<1>5. CASE VmaClose(p)
  <2>1. CASE pc[p] = "idle"
    <3>1. p \in mapped /\ p \in Mappers /\ mapped = {p}
          /\ \A q \in Proc : pc[q] \notin VmaSteps
      BY <1>1, <1>2, <1>5, <2>1 DEF VmaClose, MapsInv, VmaSteps
    <3>2. vmas = 1
      BY <1>1, <3>1 DEF MapsInv, VmaSteps
    <3>3. QED
      BY <1>1, <1>5, <2>1, <3>1, <3>2 DEF VmaClose, MapsInv, VmaSteps, GoTo
  <2>2. CASE pc[p] = "vma_close"
    <3>1. p \in Mappers \ mapped /\ mapped = {} /\ \A q \in Proc : pc[q] \in VmaSteps => q = p
      BY <1>1, <1>2, <2>2 DEF MapsInv, VmaSteps
    <3>2. vmas = 1 /\ seen[p] = 1
      BY <1>1, <2>2 DEF MapsInv
    <3>3. QED
      BY <1>1, <1>5, <2>2, <3>1, <3>2 DEF VmaClose, MapsInv, VmaSteps, GoTo
  <2>3. QED
    BY <1>5, <2>1, <2>2 DEF VmaClose
<1>6. CASE \E n \in 0 .. MaxPos : Fault(p, n)
  <2>1. /\ UNCHANGED <<vmas, seen, mapped>> /\ p \in mapped /\ pc[p] = "idle"
        /\ UNCHANGED pc \/ GoTo(p, "wild")
        /\ \A q \in Proc \ {p} : pte'[q] = pte[q]
    BY <1>1, <1>6 DEF Fault
  <2>2. \A q \in Proc : pc'[q] = pc[q] \/ (q = p /\ pc[q] = "idle" /\ pc'[q] = "wild")
    BY <1>1, <2>1 DEF GoTo
  <2>3. QED
    BY <1>1, <2>1, <2>2 DEF MapsInv, VmaSteps
<1>7. QED
  BY <1>3, <1>4, <1>5, <1>6 DEF Mapping

LEMMA MappingKeepsPages ==
    ASSUME FamilyInv, NEW p \in Proc, Mapping(p)
    PROVE  SemInv' /\ MappedPagesAreTheDevices'
<1>1. /\ PagesTypeOK /\ SemInv /\ MappedPagesAreTheDevices /\ UNCHANGED <<sem, list>>
      /\ pc \in [Proc -> Locations] /\ pte \in [Proc -> SUBSET (Nat \X Nat)]
  BY MappingLeaves DEF FamilyInv, TypeInv, PagesTypeOK, device
<1>2. \E l \in VmaSteps \cup {"idle", "wild"} :
          /\ pc[p] \in VmaSteps \cup {"idle"}
          /\ \A q \in Proc : pc'[q] = IF q = p THEN l ELSE pc[q]
  BY <1>1, MappingLeaves DEF GoTo
<1>3. /\ \A q \in Proc : pc[q] \in {"freeing", "wild"} => pc'[q] = pc[q]
      /\ \A q \in Proc : pc'[q] = "freeing" => pc[q] = "freeing"
  BY <1>2 DEF VmaSteps
<1>4. CASE \E n \in 0 .. MaxPos : Fault(p, n)
  <2>1. PICK n \in 0 .. MaxPos : Fault(p, n)
    BY <1>4
  <2>2. sem = NoProc
    BY <2>1 DEF Fault
  <2>3. SemInv'
    BY <1>1, <1>3, <2>2, PagesAssumption DEF SemInv, SemaphoreIsGivenBack
  <2>4. CASE pte' = pte
    BY <1>1, <2>3, <2>4 DEF MappedPagesAreTheDevices
  <2>5. CASE pte' # pte
    <3>1. /\ Resident(n)
          /\ pte' = [pte EXCEPT ![p] = @ \cup {<<(n \div d_qset) + 1, n % d_qset>>}]
      BY <2>1, <2>5 DEF Fault
    <3> DEFINE new == <<(n \div d_qset) + 1, n % d_qset>>
    <3>2. new[1] \in DOMAIN list /\ new[2] + 1 \in DOMAIN list[new[1]]
          /\ list[new[1]][new[2] + 1] # 0
      BY <3>1 DEF Resident
    <3>3. \A q \in Proc : \A page \in pte'[q] : page \in pte[q] \/ page = new
      BY <1>1, <3>1
    <3> HIDE DEF new
    <3>4. MappedPagesAreTheDevices'
      BY <1>1, <3>2, <3>3 DEF MappedPagesAreTheDevices
    <3>5. QED
      BY <2>3, <3>4
  <2>6. QED
    BY <2>4, <2>5
<1>5. CASE Mmap(p) \/ VmaOpen(p) \/ VmaClose(p)
  <2>1. \A q \in Proc : pte'[q] = pte[q] \/ pte'[q] = {}
    BY <1>1, <1>5 DEF Mmap, VmaOpen, VmaCount, VmaClose, maps
  <2>2. SemInv'
    BY <1>1, <1>3, <2>1 DEF SemInv, SemaphoreIsGivenBack, PagesTypeOK
  <2>3. MappedPagesAreTheDevices'
    BY <1>1, <2>1 DEF MappedPagesAreTheDevices
  <2>4. QED
    BY <2>2, <2>3
<1>6. QED
  BY <1>4, <1>5 DEF Mapping

-----------------------------------------------------------------------------
(* Every file operation of every driver is one of the steps above.         *)
LEMMA OpensStep ==
    ASSUME TypeInv, NEW p \in Proc,
           scullp_opens(p) \/ scullc_opens(p) \/ scullv_opens(p) \/ sculld_opens(p)
    PROVE  TypeInv' /\ FileEffect(p)
<1>1. \/ (\E flags \in Flags : Open(p, flags)) \/ Release(p) \/ Interrupted(p)
      \/ (TrimAnyway(p) /\ kind = "scullc") \/ TrimUnlessMapped(p) \/ TrimFree(p)
  BY DEF scullp_opens, scullc_opens, scullv_opens, sculld_opens, scullp_open, scullc_open,
         scullv_open, sculld_open, scullp_release, scullc_release, scullv_release,
         sculld_release, scullp_trim, scullc_trim, scullv_trim, sculld_trim
<1>2. QED
  BY <1>1, OpenStep, InterruptedStep, TrimStep

LEMMA FilesStep ==
    ASSUME TypeInv, NEW p \in Proc,
           scullp_file(p) \/ scullc_file(p) \/ scullv_file(p) \/ sculld_file(p)
    PROVE  TypeInv' /\ FileEffect(p)
<1>1. \/ Enter(p, "read", 2) \/ (\E n \in Counts : Small(p, n) /\ Enter(p, "write", n))
      \/ Enter(p, "aio_read", 2) \/ Enter(p, "aio_write", 2)
      \/ Read(p) \/ ReadAt(p) \/ Write(p)
      \/ DeferOp(p) \/ DoDeferredOp(p) \/ NoReturn(p) \/ Ioctl(p) \/ Show(p)
      \/ \E n \in 0 .. MaxPos : Seek(p, n)
  BY DEF scullp_file, scullc_file, scullv_file, sculld_file, scullp_read, scullc_read,
         scullv_read, sculld_read, scullp_write, scullc_write, scullv_write, sculld_write,
         scullp_llseek, scullc_llseek, scullv_llseek, sculld_llseek, scullp_ioctl,
         scullc_ioctl, scullv_ioctl, sculld_ioctl, scullp_aio_read_temp,
         scullp_aio_write_temp, scullc_aio_read, scullc_aio_write, scullv_aio_read,
         scullv_aio_write, sculld_aio_read, sculld_aio_write, scullp_seq_show,
         scullc_seq_show, scullv_seq_show
<1>2. CASE \/ Enter(p, "read", 2) \/ Enter(p, "aio_read", 2) \/ Enter(p, "aio_write", 2)
           \/ \E n \in Counts : Small(p, n) /\ Enter(p, "write", n)
  BY <1>2, EnterStep DEF Calling, Counts
<1>3. CASE Read(p) \/ ReadAt(p)
  <2>1. f_pos[p] \in Int /\ size \in Int
    BY PagesAssumption DEF TypeInv, PagesTypeOK
  <2>2. (f_pos[p] >= size) \in BOOLEAN /\ (~(f_pos[p] >= size) => f_pos[p] <= size)
        /\ (f_pos[p] > size) \in BOOLEAN /\ (~(f_pos[p] > size) => f_pos[p] <= size)
    BY <2>1
  <2>3. QED
    BY <1>3, <2>2, ReadStep DEF Read, ReadAt
<1>4. CASE Write(p)
  BY <1>4, WriteStep DEF Write
<1>5. CASE \/ DeferOp(p) \/ DoDeferredOp(p) \/ NoReturn(p) \/ Ioctl(p)
           \/ \E n \in 0 .. MaxPos : Seek(p, n)
  BY <1>5, OpenStep
<1>6. CASE Show(p)
  BY <1>6, ShowStep
<1>7. QED
  BY <1>1, <1>2, <1>3, <1>4, <1>5, <1>6

LEMMA FamilyStep ==
    ASSUME OneMapper, FamilyInv, [FamilyNext]_vars
    PROVE  FamilyInv'
<1>1. ASSUME NEW p \in Proc, FileEffect(p), TypeInv'
      PROVE  FamilyInv'
  BY <1>1, FileEffectKeeps DEF FamilyInv
<1>2. ASSUME NEW p \in Proc, Mapping(p), kind # "scullc"
      PROVE  FamilyInv'
  BY <1>2, MappingType, MappingKeepsMaps, MappingKeepsPages DEF FamilyInv
<1>3. ASSUME NEW p \in Proc,
             \/ scullp_file(p) \/ scullp_opens(p) \/ scullc_file(p) \/ scullc_opens(p)
             \/ scullv_file(p) \/ scullv_opens(p) \/ sculld_file(p) \/ sculld_opens(p)
      PROVE  FamilyInv'
  <2>1. TypeInv' /\ FileEffect(p)
    BY <1>3, OpensStep, FilesStep DEF FamilyInv
  <2>2. QED
    BY <1>1, <2>1
<1>4. ASSUME NEW p \in Proc, scullp_maps(p) \/ sculld_maps(p)
      PROVE  FamilyInv'
  <2>1. CASE \E n \in 0 .. MaxPos : FaultNoPage(p, n)
    BY <1>1, <2>1, ShowStep DEF FamilyInv
  <2>2. CASE Mapping(p)
    BY <1>2, <1>4, <2>2 DEF scullp_maps, sculld_maps
  <2>3. QED
    BY <1>4, <2>1, <2>2 DEF scullp_maps, sculld_maps, Mapping, scullp_mmap, scullp_vma_open,
       scullp_vma_close, scullp_vma_nopage, sculld_mmap, sculld_vma_open, sculld_vma_close,
       sculld_vma_nopage
<1>5. CASE UNCHANGED vars
  <2>1. TypeInv'
    BY <1>5 DEF FamilyInv, TypeInv, PagesTypeOK, CallsFit, vars, params, device, maps
  <2>2. MapsInv' /\ SemInv' /\ MappedPagesAreTheDevices'
    BY <1>5 DEF FamilyInv, MapsInv, SemInv, SemaphoreIsGivenBack, MappedPagesAreTheDevices,
                vars, params, device, maps
  <2>3. QED
    BY <2>1, <2>2 DEF FamilyInv
<1>6. QED
  BY <1>3, <1>4, <1>5 DEF FamilyNext

LEMMA FamilyBegins ==
    ASSUME PagesInit
    PROVE  FamilyInv
<1>1. PICK set \in Settings : order = set[1] /\ qset = set[2]
  BY DEF PagesInit
<1>2. set[1] \in Nat /\ set = <<set[1], set[2]>> /\ 2 ^ set[1] > 0
  BY PagesAssumption
<1>3. << <<>> >> \in Seq(Seq(Nat)) /\ << <<>> >> # <<>>
  OBVIOUS
<1>4. PagesTypeOK
  BY <1>1, <1>2, <1>3, PagesAssumption DEF PagesInit, PagesTypeOK, Locations, Idle
<1>5. CallsFit /\ MapsInv /\ SemInv /\ MappedPagesAreTheDevices
  BY DEF PagesInit, CallsFit, Idle, MapsInv, VmaSteps, SemInv, SemaphoreIsGivenBack,
         MappedPagesAreTheDevices
<1>6. QED
  BY <1>4, <1>5 DEF FamilyInv, TypeInv

(* The invariant holds in every driver of the family.                      *)
LEMMA FamilyInvHolds == OneMapper => (FamilySpec => []FamilyInv)
<1> SUFFICES ASSUME OneMapper PROVE FamilySpec => []FamilyInv
  OBVIOUS
<1>1. FamilyInv /\ [FamilyNext]_vars => FamilyInv'
  BY FamilyStep
<1>2. QED
  BY <1>1, FamilyBegins, PTL DEF FamilySpec

(* While a process maps the device, through scullp or sculld, the pages in *)
(* its table stay pages of the device: a trim that tested vmas just before *)
(* vma_open() incremented it still finds the table empty, as a fault needs *)
(* the semaphore the trim has.                                             *)
THEOREM PagesStayTheDevices == OneMapper => (FamilySpec => []MappedPagesAreTheDevices)
<1>1. FamilyInv => MappedPagesAreTheDevices
  BY DEF FamilyInv
<1>2. QED
  BY <1>1, FamilyInvHolds, PTL

(* The count, as the property states it.                                   *)
LEMMA CountOfMaps ==
    ASSUME OneMapper, FamilyInv
    PROVE  VmasIsTheMappings
<1>1. PICK m : mapped \subseteq {m}
  BY DEF OneMapper, FamilyInv, MapsInv
<1>2. Cardinality(mapped) = IF mapped = {} THEN 0 ELSE 1
  <2>1. mapped = {} \/ mapped = {m}
    BY <1>1
  <2>2. QED
    BY <2>1, FS_EmptySet, FS_Singleton
<1>3. QED
  BY <1>2 DEF FamilyInv, MapsInv, VmasIsTheMappings

(* In all four drivers the device keeps its types, vmas is the number of   *)
(* mappings whenever no one counts, and the semaphore is given back by     *)
(* every call that returns, whichever step of it failed.                   *)
THEOREM CallsLeaveOrder == OneMapper => (FamilySpec => []DeviceIsLeftInOrder)
<1> SUFFICES ASSUME OneMapper PROVE FamilySpec => []DeviceIsLeftInOrder
  OBVIOUS
<1>1. FamilyInv => DeviceIsLeftInOrder
  BY CountOfMaps DEF FamilyInv, TypeInv, SemInv, DeviceIsLeftInOrder
<1>2. QED
  BY <1>1, FamilyInvHolds, PTL
=============================================================================
