----------------------------- MODULE ScullPages -----------------------------
(***************************************************************************)
(* The scull device that can be mapped: scullp/main.c and scullp/mmap.c,   *)
(* with the places where its three copies, scullc, scullv and sculld, go   *)
(* their own way.  ScullFamily names the operations of each driver.        *)
(*                                                                         *)
(* Memory is counted in pages and a block is its length: the contents are  *)
(* those of ScullBare.  A list item is its array, <<>> for a NULL data; a  *)
(* 0 in an array is a NULL block.  What a call does between down() and     *)
(* up() is one step, except in trim, whose test of vmas other processes    *)
(* can fall behind.                                                        *)
(***************************************************************************)
EXTENDS Integers, Sequences, FiniteSets

CONSTANTS
    Proc,       \* processes, each with one file and a memory map of its own
    NoProc,     \* "no one holds the semaphore"
    Mappers,    \* the processes that map the device
    Kinds,      \* the drivers
    Settings,   \* values of the parameters: <<order, qset>>; for scullc the quantum
                \* is 2^order pages
    MaxPos      \* bound on positions, in pages

ASSUME PagesAssumption ==
    /\ NoProc \notin Proc /\ Mappers \subseteq Proc
    /\ Kinds \subseteq {"scullp", "scullc", "scullv", "sculld"}
    /\ Settings \subseteq Nat \X (Nat \ {0}) /\ MaxPos \in Nat
    /\ \A set \in Settings : 2 ^ set[1] > 0    \* which the provers do not know of powers

VARIABLES
    kind,       \* the driver of this behaviour
    order, qset,                    \* module parameters, changed by ioctl
    object,                         \* size of the objects of scullc_cache
    d_order, d_qset, size, vmas,    \* fields of the device
    list,                           \* the device and the items after it
    sem, pc, f_pos,
    call,       \* the local copies of a call: its quantum, qset and count
    seen,       \* the value of vmas read by an increment or decrement under way
    mapped,     \* which processes have a mapping
    pte         \* the blocks in a process's page table: <<item, index>>

params == <<kind, order, qset, object>>
device == <<d_order, d_qset, size, list>>
maps   == <<vmas, seen, mapped, pte>>
vars   == <<params, device, maps, sem, pc, f_pos, call>>

Locations == {"closed", "trim", "freeing", "idle", "read", "write", "aio_read", "aio_write",
              "defer", "queued", "mmap", "vma_open", "vma_close", "fault", "wild"}
Idle == [quantum |-> 1, qset |-> 1, count |-> 0]

PagesTypeOK ==
    /\ kind \in Kinds /\ <<order, qset>> \in Settings
    /\ object \in Nat /\ vmas \in Int
    /\ <<d_order, d_qset>> \in Settings /\ size \in 0 .. MaxPos
    /\ list \in Seq(Seq(Nat)) /\ list # <<>>
    /\ sem \in Proc \cup {NoProc} /\ pc \in [Proc -> Locations]
    /\ f_pos \in [Proc -> 0 .. MaxPos]
    /\ call \in [Proc -> [quantum : Nat, qset : Nat, count : Nat]]
    /\ seen \in [Proc -> Int] /\ mapped \subseteq Proc
    /\ pte \in [Proc -> SUBSET (Nat \X Nat)]

PagesInit ==
    /\ kind \in Kinds /\ \E set \in Settings : order = set[1] /\ qset = set[2]
    /\ object = 2 ^ order
    /\ d_order = order /\ d_qset = qset /\ size = 0 /\ vmas = 0 /\ list = << <<>> >>
    /\ sem = NoProc
    /\ pc = [p \in Proc |-> "closed"] /\ f_pos = [p \in Proc |-> 0]
    /\ call = [p \in Proc |-> Idle]
    /\ seen = [p \in Proc |-> 0] /\ mapped = {} /\ pte = [p \in Proc |-> {}]

GoTo(p, l) == pc' = [pc EXCEPT ![p] = l]
-----------------------------------------------------------------------------
(* Only a write-only open trims; it goes on whatever trim answers.         *)
Open(p, flags) ==
    /\ pc[p] = "closed"
    /\ GoTo(p, IF flags = "O_WRONLY" THEN "trim" ELSE "idle")
    /\ UNCHANGED <<params, device, maps, sem, f_pos, call>>

Release(p) ==
    /\ pc[p] = "idle" /\ p \notin mapped    \* a mapping keeps the file
    /\ GoTo(p, "closed") /\ f_pos' = [f_pos EXCEPT ![p] = 0]
    /\ UNCHANGED <<params, device, maps, sem, call>>

(* The calls that move the position; the asynchronous ones do not.         *)
Moves(p) == pc[p] \in {"read", "write"}

(* down_interruptible() that a signal ends; the asynchronous calls have a  *)
(* result to deliver all the same.                                         *)
Interrupted(p) ==
    /\ pc[p] \in {"trim", "read", "write", "aio_read", "aio_write"} /\ sem # NoProc
    /\ GoTo(p, CASE pc[p] = "trim" -> "closed" [] Moves(p) -> "idle" [] OTHER -> "defer")
    /\ call' = [call EXCEPT ![p] = Idle]
    /\ UNCHANGED <<params, device, maps, sem, f_pos>>

(* trim() of scullc knows no mappings.  It is also what a trim() of scullp *)
(* without its test would do.                                              *)
TrimAnyway(p) ==
    /\ pc[p] = "trim" /\ sem = NoProc
    /\ GoTo(p, "freeing") /\ sem' = p
    /\ UNCHANGED <<params, device, maps, f_pos, call>>

(* trim(), its test: nothing is released while there are mappings.         *)
TrimUnlessMapped(p) ==
    /\ pc[p] = "trim" /\ sem = NoProc
    /\ IF vmas # 0 THEN GoTo(p, "idle") /\ UNCHANGED sem
                   ELSE GoTo(p, "freeing") /\ sem' = p
    /\ UNCHANGED <<params, device, maps, f_pos, call>>

(* trim(), its loop: d_qset entries of every array are looked at, a shorter *)
(* array is overrun; then the parameters of the day are taken.             *)
TrimFree(p) ==
    /\ pc[p] = "freeing"
    /\ IF \E i \in DOMAIN list : list[i] # <<>> /\ Len(list[i]) < d_qset
       THEN GoTo(p, "wild") /\ UNCHANGED <<device, sem>>
       ELSE /\ GoTo(p, "idle") /\ sem' = NoProc
            /\ size' = 0 /\ list' = << <<>> >> /\ d_order' = order /\ d_qset' = qset
    /\ UNCHANGED <<params, maps, f_pos, call>>
-----------------------------------------------------------------------------
(* A call copies the quantum and the qset before it takes the semaphore.   *)
Enter(p, op, count) ==
    /\ pc[p] = "idle" /\ GoTo(p, op)
    /\ call' = [call EXCEPT ![p] = [quantum |-> 2 ^ d_order, qset |-> d_qset, count |-> count]]
    /\ UNCHANGED <<params, device, maps, sem, f_pos>>

(* Where the position lies, by the copies.                                 *)
item(p)  == f_pos[p] \div (call[p].quantum * call[p].qset)
s_pos(p) == (f_pos[p] % (call[p].quantum * call[p].qset)) \div call[p].quantum
q_pos(p) == f_pos[p] % call[p].quantum

(* follow(): the list, made n + 1 items long if need be.                   *)
Follow(n) == [i \in 1 .. (IF n < Len(list) THEN Len(list) ELSE n + 1) |->
                 IF i \in DOMAIN list THEN list[i] ELSE <<>>]

(* The order of an item: the items after the first are cleared when made,  *)
(* and nothing gives them the order of the device.                         *)
ItemOrder(i) == IF i = 1 THEN d_order ELSE 0

(* The length of a fresh block of item i, and how much of it is cleared:   *)
(* scullv asks vmalloc() for GFP_KERNEL bytes, which is less than a page.  *)
Block(i)   == CASE kind = "scullc" -> object [] kind = "scullv" -> 1 [] OTHER -> 2 ^ ItemOrder(i)
Cleared(i) == IF kind = "scullc" THEN 2 ^ order ELSE 2 ^ ItemOrder(i)

Least(a, b)  == IF a < b THEN a ELSE b
Transfer(p)  == Least(call[p].count, call[p].quantum - q_pos(p))

(* up() and return; the asynchronous calls go on to the deferred part.     *)
Return(p) == /\ GoTo(p, IF Moves(p) THEN "idle" ELSE "defer")
             /\ call' = [call EXCEPT ![p] = Idle]

(* An index or a copy past the end of what was allocated, or a NULL next,  *)
(* ends the account of this process: the semaphore is never given back.    *)
GoesWild(p) == /\ GoTo(p, "wild") /\ sem' = p
               /\ call' = [call EXCEPT ![p] = Idle] /\ UNCHANGED <<f_pos, size>>

(* A call that ends at nothing: or out: without having copied.             *)
(* Mutant: without up().                                                   *)
NothingAndNoUp(p) == Return(p) /\ sem' = p /\ UNCHANGED <<f_pos, size>>

Nothing(p) == Return(p) /\ UNCHANGED <<sem, f_pos, size>>

(* copy_from_iter() and copy_to_iter() answer what they copied, which the  *)
(* code takes for what they could not copy: only an empty transfer of the  *)
(* asynchronous calls is considered a success, and it moves nothing.       *)
ReadUpTo(p, beyond) ==
    /\ pc[p] \in {"read", "aio_read"} /\ sem = NoProc
    /\ LET i == item(p) + 1  l == Follow(item(p))
           n == Least(Transfer(p), size - f_pos[p])
       IN CASE beyond -> Nothing(p) /\ UNCHANGED list
            [] l[i] = <<>> -> \/ list' = l /\ Nothing(p)
                              \/ i > Len(list) /\ GoesWild(p) /\ UNCHANGED list
            [] s_pos(p) >= Len(l[i]) -> list' = l /\ GoesWild(p)
            [] l[i][s_pos(p) + 1] = 0 -> list' = l /\ Nothing(p)
            [] q_pos(p) + n > l[i][s_pos(p) + 1] -> list' = l /\ GoesWild(p)
            [] OTHER -> /\ list' = l
                        /\ \/ Nothing(p)        \* -EFAULT
                           \/ /\ Moves(p) /\ Return(p) /\ UNCHANGED <<sem, size>>
                              /\ f_pos' = [f_pos EXCEPT ![p] = @ + n]
    /\ UNCHANGED <<params, d_order, d_qset, maps>>

Read(p)   == ReadUpTo(p, f_pos[p] >= size)
ReadAt(p) == ReadUpTo(p, f_pos[p] > size)       \* sculld: the end itself is looked for

(* Any of the three allocations can fail: a list item is cleared without   *)
(* a test, the other two leave the call with -ENOMEM, and the array or the *)
(* block they come after stays.                                            *)
Write(p) ==
    /\ pc[p] \in {"write", "aio_write"} /\ sem = NoProc
    /\ \E failed \in {"none", "item", "array", "block"} :
       LET i == item(p) + 1  l == Follow(item(p))
           a == IF l[i] = <<>> THEN [s \in 1 .. call[p].qset |-> 0] ELSE l[i]
           s == s_pos(p) + 1
           made == [l EXCEPT ![i] = a]
           n == Transfer(p)
       IN CASE failed = "item"  -> i > Len(list) /\ GoesWild(p) /\ UNCHANGED list
            [] failed = "array" -> /\ l[i] = <<>> /\ list' = l /\ Nothing(p)
            [] s > Len(a)       -> failed = "none" /\ list' = made /\ GoesWild(p)
            [] failed = "block" -> /\ a[s] = 0 /\ list' = made /\ Nothing(p)
            [] OTHER ->
               LET length == IF a[s] = 0 THEN Block(i) ELSE a[s] IN
               /\ list' = [made EXCEPT ![i][s] = length]
               /\ IF (a[s] = 0 /\ Cleared(i) > length) \/ q_pos(p) + n > length
                  THEN GoesWild(p)
                  ELSE \/ Nothing(p)            \* -EFAULT
                       \/ /\ Moves(p) /\ Return(p) /\ UNCHANGED sem
                          /\ f_pos' = [f_pos EXCEPT ![p] = @ + n]
                          /\ size' = IF size < f_pos'[p] THEN f_pos'[p] ELSE size
    /\ UNCHANGED <<params, d_order, d_qset, maps>>

(* A call whose iocb is not a synchronous one has its result delivered     *)
(* later by a work item, or at once when there is no memory for one.       *)
DeferOp(p) ==
    /\ pc[p] = "defer" /\ \E next \in {"queued", "idle"} : GoTo(p, next)
    /\ UNCHANGED <<params, device, maps, sem, f_pos, call>>

DoDeferredOp(p) ==
    /\ pc[p] = "queued" /\ GoTo(p, "idle")
    /\ UNCHANGED <<params, device, maps, sem, f_pos, call>>

Seek(p, newpos) ==
    /\ pc[p] = "idle" /\ f_pos' = [f_pos EXCEPT ![p] = newpos]
    /\ UNCHANGED <<params, device, maps, sem, pc, call>>

(* The file in /proc shows the blocks of the last item, d_qset of them     *)
(* however long its array is; any process may read it.                     *)
Show(p) ==
    /\ pc[p] \in {"closed", "idle"} /\ sem = NoProc
    /\ LET last == list[Len(list)]
       IN IF last # <<>> /\ Len(last) < d_qset
          THEN GoesWild(p) ELSE UNCHANGED <<sem, pc, call, f_pos, size>>
    /\ UNCHANGED <<params, d_order, d_qset, list, maps>>

(* The commands that store a parameter: set, tell, exchange, shift; a reset *)
(* is two of them.                                                         *)
Ioctl(p) ==
    /\ pc[p] = "idle"
    /\ \E set \in Settings : order' = set[1] /\ qset' = set[2]
    /\ order' = order \/ qset' = qset
    /\ UNCHANGED <<kind, object, device, maps, sem, pc, f_pos, call>>
-----------------------------------------------------------------------------
(* mmap(): the order is tested first, the mapping counted after, both      *)
(* without the semaphore.                                                  *)
Mmap(p) ==
    /\ pc[p] = "idle" /\ p \in Mappers \ mapped
    /\ GoTo(p, IF d_order # 0 THEN "idle" ELSE "mmap")
    /\ UNCHANGED <<params, device, maps, sem, f_pos, call>>

(* vmas++ and vmas--: a load and a store.                                  *)
VmaCount(p, from, to) ==
    /\ pc[p] = from /\ GoTo(p, to)
    /\ seen' = [seen EXCEPT ![p] = vmas]
    /\ UNCHANGED <<params, device, vmas, mapped, pte, sem, f_pos, call>>

VmaOpen(p) ==
    \/ VmaCount(p, "mmap", "vma_open")
    \/ /\ pc[p] = "vma_open" /\ GoTo(p, "idle")
       /\ vmas' = seen[p] + 1 /\ seen' = [seen EXCEPT ![p] = 0] /\ mapped' = mapped \cup {p}
       /\ UNCHANGED <<params, device, pte, sem, f_pos, call>>

(* The page table entries go before vmas does.                             *)
VmaClose(p) ==
    \/ /\ pc[p] = "idle" /\ p \in mapped /\ GoTo(p, "vma_close")
       /\ mapped' = mapped \ {p} /\ pte' = [pte EXCEPT ![p] = {}]
       /\ seen' = [seen EXCEPT ![p] = vmas]
       /\ UNCHANGED <<params, device, vmas, sem, f_pos, call>>
    \/ /\ pc[p] = "vma_close" /\ GoTo(p, "idle")
       /\ vmas' = seen[p] - 1 /\ seen' = [seen EXCEPT ![p] = 0]
       /\ UNCHANGED <<params, device, mapped, pte, sem, f_pos, call>>

(* The block of a page of the device, if there is one below the size.      *)
Resident(offset) ==
    /\ offset < size /\ (offset \div d_qset) + 1 \in DOMAIN list
    /\ (offset % d_qset) + 1 \in DOMAIN list[(offset \div d_qset) + 1]
    /\ list[(offset \div d_qset) + 1][(offset % d_qset) + 1] # 0

(* vma_nopage(): down() cannot be interrupted.  A page that is missing is  *)
(* announced as found and locked all the same, and the kernel follows a    *)
(* NULL page.                                                              *)
Fault(p, offset) ==
    /\ pc[p] = "idle" /\ p \in mapped /\ sem = NoProc
    /\ IF Resident(offset)
       THEN /\ pte' = [pte EXCEPT ![p] = @ \cup {<<(offset \div d_qset) + 1, offset % d_qset>>}]
            /\ UNCHANGED pc
       ELSE GoTo(p, "wild") /\ UNCHANGED pte
    /\ UNCHANGED <<params, device, vmas, seen, mapped, sem, f_pos, call>>

(* sculld never looks up the page of a block it found: get_page() of the   *)
(* SIGBUS value is an oops, under the semaphore.  A missing page is SIGBUS. *)
FaultNoPage(p, offset) ==
    /\ pc[p] = "idle" /\ p \in mapped /\ sem = NoProc /\ Resident(offset)
    /\ GoesWild(p)
    /\ UNCHANGED <<params, d_order, d_qset, list, maps>>
=============================================================================
