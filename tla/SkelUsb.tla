------------------------------- MODULE SkelUsb -------------------------------
(***************************************************************************)
(* usb/usb-skeleton.c: a driver whose device can be pulled out while       *)
(* programs have it open.  A usb_skel is shared, by reference count, by    *)
(* the interface it drives and the files open on it.                       *)
(*                                                                         *)
(* The hub thread calls skel_probe and skel_disconnect for one interface,  *)
(* plugged in and out at will; processes open, read, write and close; the  *)
(* controller ends the urbs of the writes.                                 *)
(***************************************************************************)
EXTENDS Integers, FiniteSets

CONSTANTS
    Proc,       \* processes, each with one file
    Hub,        \* the hub thread
    NoOne,      \* "nobody holds skel_mutex"
    Dev,        \* the usb_skel structures kmalloc may return
    NoDev,      \* NULL
    Urb, NoUrb

ASSUME SkelAssumption ==
    /\ IsFiniteSet(Proc)
    /\ Hub \notin Proc /\ NoOne \notin Proc \cup {Hub}
    /\ NoDev \notin Dev /\ NoUrb \notin Urb

VARIABLES
    skel_mutex,     \* who holds it
    hub,            \* where the hub thread is
    dev,            \* the local variable dev of probe or disconnect
    intfdata,       \* what usb_get_intfdata(interface) returns
    registered,     \* whether the interface has its minor
    live,           \* the usb_skel structures that are allocated
    kref,           \* their reference counts
    pc,
    found,          \* the local variable dev of skel_open
    private_data,   \* the usb_skel of a file
    my_urb,         \* the urb a write is preparing
    inflight,       \* submitted urbs
    buffers         \* urbs whose coherent buffer is allocated

core  == <<skel_mutex, hub, dev, intfdata, registered>>
files == <<pc, found, private_data>>
urbs  == <<my_urb, inflight, buffers>>
vars  == <<core, live, kref, files, urbs>>

HubStep == {"absent", "p_endpoints", "p_data", "p_register", "p_put",
            "bound", "d_lock", "d_data", "d_deregister", "d_unlock", "d_put"}

Location == {"closed", "o_lock", "o_find", "o_data", "o_get", "o_unlock",
             "idle", "r_msg", "r_copy", "w_buffer", "w_fill", "w_submit", "wild"}

TypeOK ==
    /\ skel_mutex \in Proc \cup {Hub, NoOne}
    /\ hub \in HubStep
    /\ dev \in Dev \cup {NoDev}
    /\ intfdata \in Dev \cup {NoDev}
    /\ registered \in BOOLEAN
    /\ live \subseteq Dev
    /\ kref \in [Dev -> Nat]
    /\ pc \in [Proc -> Location]
    /\ found \in [Proc -> Dev \cup {NoDev}]
    /\ private_data \in [Proc -> Dev \cup {NoDev}]
    /\ my_urb \in [Proc -> Urb \cup {NoUrb}]
    /\ inflight \subseteq Urb
    /\ buffers \subseteq Urb

Init ==
    /\ skel_mutex = NoOne
    /\ hub = "absent" /\ dev = NoDev
    /\ intfdata = NoDev /\ registered = FALSE
    /\ live = {} /\ kref = [d \in Dev |-> 0]
    /\ pc = [p \in Proc |-> "closed"]
    /\ found = [p \in Proc |-> NoDev]
    /\ private_data = [p \in Proc |-> NoDev]
    /\ my_urb = [p \in Proc |-> NoUrb]
    /\ inflight = {} /\ buffers = {}

GoTo(p, l) == pc' = [pc EXCEPT ![p] = l]

(* kref_put(): whoever takes the count to zero runs skel_delete.           *)
Put(d) ==
    /\ kref' = [kref EXCEPT ![d] = @ - 1]
    /\ live' = IF kref[d] = 1 THEN live \ {d} ELSE live

-----------------------------------------------------------------------------
(* skel_probe                                                              *)

(* The structure is allocated and gets the count of the interface.         *)
Probe ==
    /\ hub = "absent"
    /\ \E d \in Dev \ live :
          /\ live' = live \cup {d}
          /\ kref' = [kref EXCEPT ![d] = 1]
          /\ dev' = d
    /\ hub' = "p_endpoints"
    /\ UNCHANGED <<skel_mutex, intfdata, registered, files, urbs>>

(* An endpoint is missing, or there is no memory for the buffer.           *)
Endpoints ==
    /\ hub = "p_endpoints"
    /\ hub' \in {"p_data", "p_put"}
    /\ UNCHANGED <<skel_mutex, dev, intfdata, registered, live, kref, files, urbs>>

SetData ==
    /\ hub = "p_data"
    /\ intfdata' = dev
    /\ hub' = "p_register"
    /\ UNCHANGED <<skel_mutex, dev, registered, live, kref, files, urbs>>

Register ==
    /\ hub = "p_register"
    /\ \/ /\ registered' = TRUE
          /\ hub' = "bound"
          /\ dev' = NoDev
          /\ UNCHANGED intfdata
       \/ /\ intfdata' = NoDev
          /\ hub' = "p_put"
          /\ UNCHANGED <<dev, registered>>
    /\ UNCHANGED <<skel_mutex, live, kref, files, urbs>>

ProbeFails ==
    /\ hub = "p_put"
    /\ Put(dev)
    /\ dev' = NoDev
    /\ hub' = "absent"
    /\ UNCHANGED <<skel_mutex, intfdata, registered, files, urbs>>

-----------------------------------------------------------------------------
(* skel_disconnect                                                         *)

Unplug ==
    /\ hub = "bound"
    /\ hub' = "d_lock"
    /\ UNCHANGED <<skel_mutex, dev, intfdata, registered, live, kref, files, urbs>>

DisconnectLock ==
    /\ hub = "d_lock" /\ skel_mutex = NoOne
    /\ skel_mutex' = Hub
    /\ hub' = "d_data"
    /\ UNCHANGED <<dev, intfdata, registered, live, kref, files, urbs>>

ClearData ==
    /\ hub = "d_data"
    /\ dev' = intfdata
    /\ intfdata' = NoDev
    /\ hub' = "d_deregister"
    /\ UNCHANGED <<skel_mutex, registered, live, kref, files, urbs>>

Deregister ==
    /\ hub = "d_deregister"
    /\ registered' = FALSE
    /\ hub' = "d_unlock"
    /\ UNCHANGED <<skel_mutex, dev, intfdata, live, kref, files, urbs>>

DisconnectUnlock ==
    /\ hub = "d_unlock"
    /\ skel_mutex' = NoOne
    /\ hub' = "d_put"
    /\ UNCHANGED <<dev, intfdata, registered, live, kref, files, urbs>>

DisconnectPut ==
    /\ hub = "d_put"
    /\ Put(dev)
    /\ dev' = NoDev
    /\ hub' = "absent"
    /\ UNCHANGED <<skel_mutex, intfdata, registered, files, urbs>>

-----------------------------------------------------------------------------
(* skel_open and skel_release                                              *)

(* The USB core calls skel_open for a minor that is registered.            *)
Open(p) ==
    /\ pc[p] = "closed" /\ registered
    /\ GoTo(p, "o_lock")
    /\ UNCHANGED <<core, live, kref, found, private_data, urbs>>

(* Mutant: skel_open does not take the mutex.                              *)
OpenLockFree(p) ==
    /\ pc[p] = "o_lock"
    /\ GoTo(p, "o_find")
    /\ UNCHANGED <<core, live, kref, found, private_data, urbs>>

OpenLock(p) ==
    /\ pc[p] = "o_lock" /\ skel_mutex = NoOne
    /\ skel_mutex' = p
    /\ GoTo(p, "o_find")
    /\ UNCHANGED <<hub, dev, intfdata, registered, live, kref, found, private_data, urbs>>

(* usb_find_interface() fails: -ENODEV, and the mutex is kept.             *)
OpenFind(p) ==
    /\ pc[p] = "o_find"
    /\ GoTo(p, IF registered THEN "o_data" ELSE "closed")
    /\ UNCHANGED <<core, live, kref, found, private_data, urbs>>

(* Mutant: the mutex is given back before the reference is taken.          *)
OpenDataUnlocks(p) ==
    /\ pc[p] = "o_data"
    /\ found' = [found EXCEPT ![p] = intfdata]
    /\ skel_mutex' = NoOne
    /\ GoTo(p, IF intfdata = NoDev THEN "closed" ELSE "o_get")
    /\ UNCHANGED <<hub, dev, intfdata, registered, live, kref, private_data, urbs>>

(* The same for an interface without data.                                 *)
OpenData(p) ==
    /\ pc[p] = "o_data"
    /\ found' = [found EXCEPT ![p] = intfdata]
    /\ GoTo(p, IF intfdata = NoDev THEN "closed" ELSE "o_get")
    /\ UNCHANGED <<core, live, kref, private_data, urbs>>

(* Mutant: the reference is not counted.                                   *)
OpenGetUncounted(p) ==
    /\ pc[p] = "o_get"
    /\ private_data' = [private_data EXCEPT ![p] = found[p]]
    /\ GoTo(p, "o_unlock")
    /\ UNCHANGED <<core, live, kref, found, urbs>>

OpenGet(p) ==
    /\ pc[p] = "o_get"
    /\ kref' = [kref EXCEPT ![found[p]] = @ + 1]
    /\ private_data' = [private_data EXCEPT ![p] = found[p]]
    /\ GoTo(p, "o_unlock")
    /\ UNCHANGED <<core, live, found, urbs>>

OpenUnlock(p) ==
    /\ pc[p] = "o_unlock"
    /\ skel_mutex' = NoOne
    /\ GoTo(p, "idle")
    /\ UNCHANGED <<hub, dev, intfdata, registered, live, kref, found, private_data, urbs>>

Release(p) ==
    /\ pc[p] = "idle"
    /\ Put(private_data[p])
    /\ private_data' = [private_data EXCEPT ![p] = NoDev]
    /\ GoTo(p, "closed")
    /\ UNCHANGED <<core, found, urbs>>

-----------------------------------------------------------------------------
(* skel_read: usb_bulk_msg() on the device's one buffer, then the copy.    *)

Read(p) ==
    /\ pc[p] = "idle"
    /\ GoTo(p, "r_msg")
    /\ UNCHANGED <<core, live, kref, found, private_data, urbs>>

ReadMsg(p) ==
    /\ pc[p] = "r_msg"
    /\ \E l \in {"r_copy", "idle"} : GoTo(p, l)
    /\ UNCHANGED <<core, live, kref, found, private_data, urbs>>

ReadCopy(p) ==
    /\ pc[p] = "r_copy"
    /\ GoTo(p, "idle")
    /\ UNCHANGED <<core, live, kref, found, private_data, urbs>>

-----------------------------------------------------------------------------
(* skel_write and its callback.  The error path reads urb->transfer_dma of *)
(* an urb that may be NULL and frees the buffer twice, with                *)
(* usb_free_coherent() and kfree(): the process is left there, "wild".     *)

Write(p) ==
    /\ pc[p] = "idle"
    /\ \/ /\ \E u \in Urb \ (inflight \cup buffers \cup {my_urb[q] : q \in Proc}) :
                 my_urb' = [my_urb EXCEPT ![p] = u]
          /\ GoTo(p, "w_buffer")
       \/ /\ GoTo(p, "wild")
          /\ UNCHANGED my_urb
    /\ UNCHANGED <<core, live, kref, found, private_data, inflight, buffers>>

(* Without a buffer the error path frees NULL, which is allowed.           *)
WriteBuffer(p) ==
    /\ pc[p] = "w_buffer"
    /\ \/ /\ buffers' = buffers \cup {my_urb[p]}
          /\ GoTo(p, "w_fill")
          /\ UNCHANGED my_urb
       \/ /\ my_urb' = [my_urb EXCEPT ![p] = NoUrb]
          /\ GoTo(p, "idle")
          /\ UNCHANGED buffers
    /\ UNCHANGED <<core, live, kref, found, private_data, inflight>>

FreesTwice(p) ==
    /\ buffers' = buffers \ {my_urb[p]}
    /\ my_urb' = [my_urb EXCEPT ![p] = NoUrb]
    /\ GoTo(p, "wild")

WriteFill(p) ==
    /\ pc[p] = "w_fill"
    /\ \/ /\ GoTo(p, "w_submit")
          /\ UNCHANGED <<my_urb, buffers>>
       \/ FreesTwice(p)
    /\ UNCHANGED <<core, live, kref, found, private_data, inflight>>

(* Submission can fail, and does once the interface is gone.               *)
WriteSubmit(p) ==
    /\ pc[p] = "w_submit"
    /\ \/ /\ inflight' = inflight \cup {my_urb[p]}
          /\ my_urb' = [my_urb EXCEPT ![p] = NoUrb]
          /\ GoTo(p, "idle")
          /\ UNCHANGED buffers
       \/ /\ FreesTwice(p)
          /\ UNCHANGED inflight
    /\ UNCHANGED <<core, live, kref, found, private_data>>

(* Mutant: only an urb without an error gives its buffer back.             *)
CallbackKeeps(u) ==
    /\ u \in inflight
    /\ inflight' = inflight \ {u}
    /\ buffers' \in {buffers, buffers \ {u}}
    /\ UNCHANGED <<core, live, kref, files, my_urb>>

Callback(u) ==
    /\ u \in inflight
    /\ inflight' = inflight \ {u}
    /\ buffers' = buffers \ {u}
    /\ UNCHANGED <<core, live, kref, files, my_urb>>

-----------------------------------------------------------------------------
HubNext ==
    \/ Probe \/ Endpoints \/ SetData \/ Register \/ ProbeFails
    \/ Unplug \/ DisconnectLock \/ ClearData \/ Deregister
    \/ DisconnectUnlock \/ DisconnectPut

FileNext(p) ==
    \/ Open(p) \/ OpenLock(p) \/ OpenFind(p) \/ OpenData(p) \/ OpenGet(p) \/ OpenUnlock(p)
    \/ Release(p)
    \/ Read(p) \/ ReadMsg(p) \/ ReadCopy(p)
    \/ Write(p) \/ WriteBuffer(p) \/ WriteFill(p) \/ WriteSubmit(p)

Next == HubNext \/ (\E p \in Proc : FileNext(p)) \/ (\E u \in Urb : Callback(u))

Spec == Init /\ [][Next]_vars

-----------------------------------------------------------------------------
(* A file whose open has taken its reference, until its release.           *)
HasOpen(p) == pc[p] \notin {"closed", "o_lock", "o_find", "o_data", "o_get"}

Holders(d) == {p \in Proc : HasOpen(p) /\ private_data[p] = d}
              \cup (IF d \in {dev, intfdata} THEN {Hub} ELSE {})

(* The count of a structure is the number of open files on it, and one for *)
(* the interface while it is bound: the last of them frees it, whether     *)
(* that is a close or the disconnect, and no earlier one does.             *)
CountIsHolders ==
    \A d \in Dev :
        /\ kref[d] = Cardinality(Holders(d))
        /\ d \in live <=> Holders(d) # {}

(* Nobody is left with a structure that is freed: no open file, whatever   *)
(* was plugged out under it, no open between its look at the interface and *)
(* its reference, no probe or disconnect.                                  *)
NoUseAfterFree ==
    /\ \A p \in Proc : HasOpen(p) => private_data[p] \in live
    /\ \A p \in Proc : pc[p] = "o_get" => found[p] \in live
    /\ {dev, intfdata} \subseteq live \cup {NoDev}

(* usb-skeleton.c:325, "prevent skel_open() from racing skel_disconnect()":  *)
(* an open takes its reference on what is still the interface's structure. *)
OpensWhatIsThere ==
    [][\A p \in Proc : pc[p] = "o_get" /\ pc'[p] = "o_unlock" =>
           registered /\ found[p] = intfdata]_vars

(* A coherent buffer belongs to one urb: it is there as long as its urb is *)
(* in flight or being filled, and not a moment longer.                     *)
BuffersHaveUrbs ==
    buffers = inflight \cup {my_urb[p] : p \in {q \in Proc : pc[q] \in {"w_fill", "w_submit"}}}
=============================================================================
