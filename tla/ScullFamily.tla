----------------------------- MODULE ScullFamily -----------------------------
(***************************************************************************)
(* The four drivers over ScullPages: scullp takes its blocks from the page *)
(* allocator, scullc from a slab cache, scullv from vmalloc(), sculld from *)
(* the page allocator for devices of the ldd bus.  A behaviour follows one *)
(* of them, and every file operation is the driver's own.                  *)
(***************************************************************************)
EXTENDS ScullPages

Flags  == {"O_RDONLY", "O_WRONLY", "O_RDWR"}
Counts == 1 .. 2
Small(p, n) == f_pos[p] + n <= MaxPos

-----------------------------------------------------------------------------
scullp_open(p)    == \E flags \in Flags : Open(p, flags)
scullp_release(p) == Release(p)
scullp_trim(p)    == TrimUnlessMapped(p) \/ TrimFree(p)
scullp_read(p)    == Enter(p, "read", 2) \/ (Moves(p) /\ Read(p))
scullp_write(p)   == (\E n \in Counts : Small(p, n) /\ Enter(p, "write", n)) \/ (Moves(p) /\ Write(p))
scullp_aio_read_temp(p)  == Enter(p, "aio_read", 2) \/ (~Moves(p) /\ Read(p))
scullp_aio_write_temp(p) == Enter(p, "aio_write", 2) \/ (~Moves(p) /\ Write(p))
scullp_llseek(p)  == \E n \in 0 .. MaxPos : Seek(p, n)
scullp_ioctl(p)   == Ioctl(p)
scullp_mmap(p)    == Mmap(p)
scullp_seq_show(p) == Show(p)

scullp_vma_open(p)  == VmaOpen(p)
scullp_vma_close(p) == VmaClose(p)
scullp_vma_nopage(p) == \E n \in 0 .. MaxPos : Fault(p, n)

scullp_file(p) ==
    /\ kind = "scullp"
    /\ \/ scullp_read(p) \/ scullp_write(p) \/ scullp_llseek(p) \/ scullp_ioctl(p)
       \/ scullp_aio_read_temp(p) \/ scullp_aio_write_temp(p) \/ DeferOp(p) \/ DoDeferredOp(p)
       \/ scullp_seq_show(p)
scullp_opens(p) ==
    /\ kind = "scullp"
    /\ scullp_open(p) \/ scullp_release(p) \/ scullp_trim(p) \/ Interrupted(p)
scullp_maps(p) ==
    /\ kind = "scullp"
    /\ scullp_mmap(p) \/ scullp_vma_open(p) \/ scullp_vma_close(p) \/ scullp_vma_nopage(p)

-----------------------------------------------------------------------------
(* scullc and scullv have no mmap, and asynchronous operations without a   *)
(* return statement: the kernel takes what is left in the register, which  *)
(* may promise a completion that nobody delivers.                          *)
NoReturn(p) ==
    /\ pc[p] = "idle" /\ \E next \in {"idle", "queued"} : GoTo(p, next)
    /\ UNCHANGED <<params, device, maps, sem, f_pos, call>>

scullc_open(p)    == \E flags \in Flags : Open(p, flags)
scullc_release(p) == Release(p)
scullc_trim(p)    == TrimAnyway(p) \/ TrimFree(p)
scullc_read(p)    == Enter(p, "read", 2) \/ Read(p)
scullc_write(p)   == (\E n \in Counts : Small(p, n) /\ Enter(p, "write", n)) \/ Write(p)
scullc_llseek(p)  == \E n \in 0 .. MaxPos : Seek(p, n)
scullc_ioctl(p)   == Ioctl(p)
scullc_aio_read(p)  == NoReturn(p)
scullc_aio_write(p) == NoReturn(p)
scullc_seq_show(p)  == Show(p)

scullc_file(p) ==
    /\ kind = "scullc"
    /\ \/ scullc_read(p) \/ scullc_write(p) \/ scullc_llseek(p) \/ scullc_ioctl(p)
       \/ scullc_aio_read(p) \/ scullc_aio_write(p) \/ scullc_seq_show(p)
scullc_opens(p) ==
    /\ kind = "scullc"
    /\ scullc_open(p) \/ scullc_release(p) \/ scullc_trim(p) \/ Interrupted(p)

scullv_open(p)    == \E flags \in Flags : Open(p, flags)
scullv_release(p) == Release(p)
scullv_trim(p)    == TrimUnlessMapped(p) \/ TrimFree(p)
scullv_read(p)    == Enter(p, "read", 2) \/ Read(p)
scullv_write(p)   == (\E n \in Counts : Small(p, n) /\ Enter(p, "write", n)) \/ Write(p)
scullv_llseek(p)  == \E n \in 0 .. MaxPos : Seek(p, n)
scullv_ioctl(p)   == Ioctl(p)
scullv_aio_read(p)  == NoReturn(p)
scullv_aio_write(p) == NoReturn(p)
scullv_seq_show(p)  == Show(p)

scullv_file(p) ==
    /\ kind = "scullv"
    /\ \/ scullv_read(p) \/ scullv_write(p) \/ scullv_llseek(p) \/ scullv_ioctl(p)
       \/ scullv_aio_read(p) \/ scullv_aio_write(p) \/ scullv_seq_show(p)
scullv_opens(p) ==
    /\ kind = "scullv"
    /\ scullv_open(p) \/ scullv_release(p) \/ scullv_trim(p) \/ Interrupted(p)

-----------------------------------------------------------------------------
(* sculld has the mmap of scullp, with a fault handler that oopses.        *)
sculld_open(p)    == \E flags \in Flags : Open(p, flags)
sculld_release(p) == Release(p)
sculld_trim(p)    == TrimUnlessMapped(p) \/ TrimFree(p)
sculld_read(p)    == Enter(p, "read", 2) \/ ReadAt(p)
sculld_write(p)   == (\E n \in Counts : Small(p, n) /\ Enter(p, "write", n)) \/ Write(p)
sculld_llseek(p)  == \E n \in 0 .. MaxPos : Seek(p, n)
sculld_ioctl(p)   == Ioctl(p)
sculld_aio_read(p)  == NoReturn(p)
sculld_aio_write(p) == NoReturn(p)
sculld_mmap(p)    == Mmap(p)
sculld_vma_open(p)  == VmaOpen(p)
sculld_vma_close(p) == VmaClose(p)
sculld_vma_nopage(p) == \E n \in 0 .. MaxPos : FaultNoPage(p, n)

sculld_file(p) ==
    /\ kind = "sculld"
    /\ \/ sculld_read(p) \/ sculld_write(p) \/ sculld_llseek(p) \/ sculld_ioctl(p)
       \/ sculld_aio_read(p) \/ sculld_aio_write(p)
sculld_opens(p) ==
    /\ kind = "sculld"
    /\ sculld_open(p) \/ sculld_release(p) \/ sculld_trim(p) \/ Interrupted(p)
sculld_maps(p) ==
    /\ kind = "sculld"
    /\ sculld_mmap(p) \/ sculld_vma_open(p) \/ sculld_vma_close(p) \/ sculld_vma_nopage(p)

FamilyNext == \E p \in Proc : \/ scullp_file(p) \/ scullp_opens(p) \/ scullp_maps(p)
                              \/ scullc_file(p) \/ scullc_opens(p)
                              \/ scullv_file(p) \/ scullv_opens(p)
                              \/ sculld_file(p) \/ sculld_opens(p) \/ sculld_maps(p)

FamilySpec == PagesInit /\ [][FamilyNext]_vars

-----------------------------------------------------------------------------
(* mmap.c:28-29 keeps track of the mappings "to avoid releasing" the       *)
(* device.  As long as one memory map is involved, whose own lock keeps    *)
(* the increments and decrements of vmas apart, the pages in its table are *)
(* pages of the device: no trim, even one that tested vmas just before it  *)
(* was incremented, takes them away.                                       *)
MappedPagesAreTheDevices ==
    \A p \in Proc : \A page \in pte[p] :
        /\ page[1] \in DOMAIN list /\ page[2] + 1 \in DOMAIN list[page[1]]
        /\ list[page[1]][page[2] + 1] # 0

(* With one memory map, vmas is right whenever its process is not counting. *)
VmasIsTheMappings ==
    (\A p \in Proc : pc[p] \notin {"vma_open", "vma_close"}) => vmas = Cardinality(mapped)

(* Whatever fails in a call, the semaphore is free again when it returns:  *)
(* only a trim under way, or a process that ended in an oops, has it.      *)
SemaphoreIsGivenBack == sem # NoProc => pc[sem] \in {"freeing", "wild"}

(* What a call leaves behind it, whichever way it ends, is in order.       *)
DeviceIsLeftInOrder == PagesTypeOK /\ VmasIsTheMappings /\ SemaphoreIsGivenBack

(* mmap.c:52-56: "order must be zero. [...] it isn't possible to map pages *)
(* from a multipage block".                                                *)
MapsSinglePages ==
    \A p \in Proc : \A page \in pte[p] : list[page[1]][page[2] + 1] = 1
=============================================================================
