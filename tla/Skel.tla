-------------------------------- MODULE Skel --------------------------------
(***************************************************************************)
(* include/bpf/skel_internal.h: what a light skeleton uses to load a BPF   *)
(* object.  bpf_load_and_run makes a map, loads the loader program and     *)
(* runs it, and must undo the first two whatever fails; the skel_*_data    *)
(* functions hand the initial value of a map from a buffer to the map.     *)
(* The header is compiled for kernel modules and for programs, with two    *)
(* versions of the data functions and of error reporting; kernel says      *)
(* which one this is.                                                      *)
(*                                                                         *)
(* The generated skeleton that calls these functions is not part of the    *)
(* repository.  It is modelled from the comment on skel_free_map_data and  *)
(* from how the functions have to be called: open, load, attach, destroy.  *)
(* Other threads open and close descriptors of their own all the time, so  *)
(* a descriptor that is closed twice is somebody else's the second time.   *)
(***************************************************************************)
EXTENDS Integers

CONSTANTS
  NMaps,    \* how many maps of the object have an initial value
  MaxFd,    \* descriptors are 0 .. MaxFd
  Errors    \* the error numbers that system calls fail with

ASSUME NMapsAssumption == NMaps \in Nat \ {0}
ASSUME MaxFdAssumption == MaxFd \in Nat
ASSUME ErrorsAssumption == Errors \subseteq Nat \ {0}

VARIABLES
  kernel,   \* __KERNEL__
  pc,       \* the next call of the skeleton, or step of bpf_load_and_run
  i,        \* the map it is about
  owner,    \* [descriptors -> what it is open for, or "none"]
  map_fd, prog_fd, err,  \* locals of bpf_load_and_run
  errno,    \* of this thread
  failed,   \* error number of the first call that failed, or 0; history
  errstr,   \* opts->errstr: what has failed, or nothing
  flags,    \* ctx->flags: where the loader program finds the initial values
  desc,     \* [maps -> struct bpf_map_desc]
  data,     \* [maps -> the skeleton's pointer to its initial value]
  mem,      \* [maps -> the buffer made by skel_prep_map_data]
  prog, link  \* the descriptors of the object's program and of its link

loader == <<map_fd, prog_fd, err, errno, errstr, failed>>
skel   == <<flags, desc, data, mem, prog, link>>
vars   == <<kernel, pc, i, owner, loader, skel>>

Fds  == 0 .. MaxFd
Maps == 1 .. NMaps

Loaders == {"loader_map", "loader_prog"}
Objects == {"map", "prog", "link"}

\* struct bpf_map_desc; BPF_SKEL_KERNEL in struct bpf_loader_ctx; errstr in
\* struct bpf_load_and_run_opts.
MapDesc == [map_fd : Fds, initial_value : {"null", "buffer", "ones"}]
Flags   == {"none", "BPF_SKEL_KERNEL"}
Errstr  == {"none", "create", "update", "load", "execute"}

-----------------------------------------------------------------------------
(* System calls *)

Free == {fd \in Fds : owner[fd] = "none"}

\* A new descriptor is the lowest one that is free.
LowestFree(fd) == fd \in Free /\ \A g \in Free : fd <= g

\* What a system call returns, or bpf_load_and_run: a descriptor or an error.
Results == Fds \cup {-1} \cup {-e : e \in Errors}

\* skel_sys_bpf fails with e: kern_sys_bpf returns the error, syscall() a -1.
Fails(e) == IF kernel THEN -e ELSE -1

\* set_err, after a call failed with e.
set_err_nothing(e) == Fails(e)
set_err(e) == IF kernel THEN Fails(e) ELSE -e

Closed(fds) == [fd \in Fds |-> IF fd \in fds THEN "none" ELSE owner[fd]]

\* skel_closenz closes fd if it is not 0, which stands for none.
closenz_any(fd) == {fd} \cap Fds
closenz(fd) == IF fd > 0 THEN {fd} ELSE {}

-----------------------------------------------------------------------------
(* The data of a map *)

\* A map's descriptor with its initial value set.
WithInit(d, init) == [map_fd |-> d.map_fd, initial_value |-> init]

\* kvfree(p) and munmap(p): the state of the buffer afterwards.  Anything
\* but a buffer in use, or one that the map was mapped over, is not there to
\* be freed.
Kvfree(p, m) ==
  CASE p = "null" -> m
    [] p = "buffer" /\ m = "live" -> "freed"
    [] OTHER -> "corrupt"

Munmap(p, m) ==
  CASE p = "null" -> m
    [] p = "buffer" /\ m \in {"live", "mapped"} -> "freed"
    [] OTHER -> "corrupt"

skel_free_map_data(p, addr, m) ==
  IF kernel
    THEN IF addr # "ones" THEN Kvfree(p, m) ELSE m
    ELSE Munmap(p, m)

\* skel_finalize_map_data: the buffer, initial_value, and what it returns.  In
\* the kernel the buffer is freed before it turns out whether fd is a map, and
\* an array: the value of no other map can be pointed to.
finalize_no_free(d, m, fd) == {[mem |-> m, init |-> "ones", ret |-> "value"]}
finalize_keeps_init(d, m, fd) == {[mem |-> Kvfree(d, m), init |-> d, ret |-> "value"]}
finalize_kernel(d, m, fd) ==
  {[mem |-> Kvfree(d, m), init |-> "ones", ret |-> ret] :
     ret \in {"null"} \cup (IF owner[fd] = "map" THEN {"value"} ELSE {})}

\* In user space the map is mapped over the buffer, which may fail.
finalize_user(d, m) ==
  {[mem |-> "mapped", init |-> d, ret |-> "buffer"], [mem |-> m, init |-> d, ret |-> "null"]}

skel_finalize_map_data(d, m, fd) ==
  IF kernel THEN finalize_kernel(d, m, fd) ELSE finalize_user(d, m)

-----------------------------------------------------------------------------
(* bpf_load_and_run *)

Goto(l) == pc' = l

\* A step that failed with e.
StepFails(e, what) ==
  /\ err' = set_err(e)
  /\ errstr' = what
  /\ errno' = IF kernel THEN errno ELSE e
  /\ failed' = e
  /\ Goto("out")
  /\ UNCHANGED <<kernel, i, owner, skel>>

skel_map_create ==
  /\ pc = "create"
  /\ \/ \E fd \in Fds :
          /\ LowestFree(fd)
          /\ owner' = [owner EXCEPT ![fd] = "loader_map"]
          /\ map_fd' = fd /\ err' = fd
          /\ Goto("update")
          /\ UNCHANGED <<kernel, i, prog_fd, errno, errstr, failed, skel>>
     \/ \E e \in Errors :
          /\ map_fd' = Fails(e)
          /\ StepFails(e, "create")
          /\ UNCHANGED prog_fd

skel_map_update_elem ==
  /\ pc = "update"
  /\ \/ /\ err' = 0
        /\ Goto("load")
        /\ UNCHANGED <<kernel, i, owner, map_fd, prog_fd, errno, errstr, failed, skel>>
     \/ \E e \in Errors : StepFails(e, "update") /\ UNCHANGED <<map_fd, prog_fd>>

LoadLoader ==
  /\ pc = "load"
  /\ \/ \E fd \in Fds :
          /\ LowestFree(fd)
          /\ owner' = [owner EXCEPT ![fd] = "loader_prog"]
          /\ prog_fd' = fd /\ err' = fd
          /\ Goto("run")
          /\ UNCHANGED <<kernel, i, map_fd, errno, errstr, failed, skel>>
     \/ \E e \in Errors :
          /\ prog_fd' = Fails(e)
          /\ StepFails(e, "load")
          /\ UNCHANGED map_fd

\* The loader program has made the maps and loaded the program of the
\* object, one after the other, and left the descriptors in the skeleton.
RunLoader ==
  /\ pc = "run"
  /\ \E fds \in [1 .. NMaps + 1 -> Free] :
       /\ \A k, n \in DOMAIN fds : k < n => fds[k] < fds[n]
       /\ \A g \in Free : g < fds[NMaps + 1] => \E k \in DOMAIN fds : fds[k] = g
       /\ owner' = [fd \in Fds |-> CASE fd \in {fds[k] : k \in Maps} -> "map"
                                     [] fd = fds[NMaps + 1] -> "prog"
                                     [] OTHER -> owner[fd]]
       /\ desc' = [k \in Maps |-> [map_fd |-> fds[k], initial_value |-> desc[k].initial_value]]
       /\ prog' = fds[NMaps + 1]
  /\ err' = 0
  /\ Goto("out")
  /\ UNCHANGED <<kernel, i, map_fd, prog_fd, errno, errstr, failed, flags, data, mem, link>>

\* BPF_PROG_RUN fails, or it succeeds and the loader program has failed,
\* having closed what it opened, with an error number of its own.
RunFails_err_only(e, retval) == IF retval < 0 THEN 0 ELSE set_err(e)
RunFails(e, retval) == IF retval < 0 THEN retval ELSE set_err(e)

RunLoaderFails ==
  /\ pc = "run"
  /\ \E e \in Errors, retval \in {0} \cup {-x : x \in Errors} :
       /\ retval \in {0, -e}
       /\ err' = RunFails(e, retval)
       /\ errno' = IF kernel THEN errno ELSE e
       /\ failed' = e
  /\ errstr' = "execute"
  /\ Goto("out")
  /\ UNCHANGED <<kernel, i, owner, map_fd, prog_fd, skel>>

\* The ends of the two locals: here 0 is a descriptor like any other.
out_closes_nz(fd) == closenz(fd)
out_closes(fd) == {g \in {fd} : g >= 0}

\* close() may fail too, and then changes errno.
CloseErrno(fd) == IF kernel \/ out_closes(fd) = {} THEN {errno} ELSE {errno} \cup Errors

OutMap ==
  /\ pc = "out"
  /\ owner' = Closed(out_closes(map_fd))
  /\ errno' \in CloseErrno(map_fd)
  /\ Goto("out_prog")
  /\ UNCHANGED <<kernel, i, map_fd, prog_fd, err, errstr, failed, skel>>

OutProg ==
  /\ pc = "out_prog"
  /\ owner' = Closed(out_closes(prog_fd))
  /\ errno' \in CloseErrno(prog_fd)
  /\ Goto(IF err < 0 THEN "detach" ELSE "finalize")
  /\ i' = 1
  /\ UNCHANGED <<kernel, map_fd, prog_fd, err, errstr, failed, skel>>

-----------------------------------------------------------------------------
(* The skeleton *)

\* skel_alloc returns zeroed memory, in which no descriptor is set, or NULL.
skel_alloc ==
  /\ pc = "open"
  /\ \/ Goto("prep") /\ flags' = IF kernel THEN "BPF_SKEL_KERNEL" ELSE "none"
     \/ Goto("gone") /\ UNCHANGED flags
  /\ UNCHANGED <<kernel, i, owner, loader, desc, data, mem, prog, link>>

skel_prep_map_data ==
  /\ pc = "prep"
  /\ \/ /\ mem' = [mem EXCEPT ![i] = "live"]
        /\ data' = [data EXCEPT ![i] = "buffer"]
        /\ desc' = [desc EXCEPT ![i] = WithInit(@, "buffer")]
        /\ Goto(IF i = NMaps THEN "create" ELSE "prep")
        /\ i' = IF i = NMaps THEN 1 ELSE i + 1
     \/ Goto("detach") /\ i' = 1 /\ UNCHANGED <<mem, data, desc>>
  /\ UNCHANGED <<kernel, owner, loader, flags, prog, link>>

Finalize ==
  /\ pc = "finalize"
  /\ \E r \in skel_finalize_map_data(desc[i].initial_value, mem[i], desc[i].map_fd) :
       /\ mem' = [mem EXCEPT ![i] = r.mem]
       /\ desc' = [desc EXCEPT ![i] = WithInit(@, r.init)]
       /\ data' = [data EXCEPT ![i] = r.ret]
       /\ Goto(CASE r.ret = "null" -> "detach"
                 [] r.ret # "null" /\ i = NMaps -> "attach"
                 [] OTHER -> "finalize")
       /\ i' = IF r.ret = "null" \/ i = NMaps THEN 1 ELSE i + 1
  /\ UNCHANGED <<kernel, owner, loader, flags, prog, link>>

\* skel_raw_tracepoint_open or skel_link_create; a descriptor above 0 is
\* kept.
Attach ==
  /\ pc = "attach"
  /\ \/ \E fd \in Fds :
          /\ LowestFree(fd)
          /\ owner' = [owner EXCEPT ![fd] = "link"]
          /\ link' = IF fd > 0 THEN fd ELSE link
     \/ UNCHANGED <<owner, link>>
  /\ Goto("detach")
  /\ UNCHANGED <<kernel, i, loader, flags, desc, data, mem, prog>>

Detach ==
  /\ pc = "detach"
  /\ owner' = Closed(closenz(link))
  /\ link' = 0
  /\ Goto("close_prog")
  /\ UNCHANGED <<kernel, i, loader, flags, desc, data, mem, prog>>

CloseProg ==
  /\ pc = "close_prog"
  /\ owner' = Closed(closenz(prog))
  /\ Goto("free_data")
  /\ UNCHANGED <<kernel, i, loader, skel>>

FreeData ==
  /\ pc = "free_data"
  /\ mem' = [mem EXCEPT ![i] = skel_free_map_data(data[i], desc[i].initial_value, @)]
  /\ Goto("close_map")
  /\ UNCHANGED <<kernel, i, owner, loader, flags, desc, data, prog, link>>

\* After the last map the skeleton itself is freed.
CloseMap ==
  /\ pc = "close_map"
  /\ owner' = Closed(closenz(desc[i].map_fd))
  /\ Goto(IF i = NMaps THEN "gone" ELSE "free_data")
  /\ i' = IF i = NMaps THEN i ELSE i + 1
  /\ UNCHANGED <<kernel, loader, skel>>

-----------------------------------------------------------------------------
OtherOpens ==
  /\ \E fd \in Fds : LowestFree(fd) /\ owner' = [owner EXCEPT ![fd] = "other"]
  /\ UNCHANGED <<kernel, pc, i, loader, skel>>

OtherCloses ==
  /\ \E fd \in Fds : owner[fd] = "other" /\ owner' = [owner EXCEPT ![fd] = "none"]
  /\ UNCHANGED <<kernel, pc, i, loader, skel>>

Init ==
  /\ kernel \in BOOLEAN
  /\ pc = "open" /\ i = 1
  /\ owner \in [Fds -> {"none", "other"}]
  /\ map_fd = -1 /\ prog_fd = -1 /\ err = 0 /\ errno = 0 /\ errstr = "none" /\ failed = 0
  /\ flags = "none"
  /\ desc = [m \in Maps |-> [map_fd |-> 0, initial_value |-> "null"]]
  /\ data = [m \in Maps |-> "null"]
  /\ mem = [m \in Maps |-> "none"]
  /\ prog = 0 /\ link = 0

bpf_load_and_run ==
  \/ skel_map_create \/ skel_map_update_elem \/ LoadLoader
  \/ RunLoader \/ RunLoaderFails \/ OutMap \/ OutProg

Next ==
  \/ skel_alloc \/ skel_prep_map_data
  \/ bpf_load_and_run
  \/ Finalize \/ Attach
  \/ Detach \/ CloseProg \/ FreeData \/ CloseMap
  \/ OtherOpens \/ OtherCloses

Spec == Init /\ [][Next]_vars

-----------------------------------------------------------------------------
(* Properties *)

\* The values the variables take.
TypeOK ==
  /\ kernel \in BOOLEAN
  /\ pc \in {"open", "prep", "create", "update", "load", "run", "out", "out_prog", "finalize",
             "attach", "detach", "close_prog", "free_data", "close_map", "gone"}
  /\ i \in Maps
  /\ owner \in [Fds -> {"none", "other"} \cup Loaders \cup Objects]
  /\ map_fd \in Results /\ prog_fd \in Results /\ err \in Results
  /\ errno \in {0} \cup Errors /\ failed \in {0} \cup Errors
  /\ desc \in [Maps -> MapDesc]
  /\ flags \in Flags /\ errstr \in Errstr
  /\ data \in [Maps -> {"null", "buffer", "value"}]
  /\ mem \in [Maps -> {"none", "live", "mapped", "freed", "corrupt"}]
  /\ prog \in Fds /\ link \in Fds

(***************************************************************************)
(* No descriptor of another thread is ever closed: a skeleton that is      *)
(* destroyed before it was loaded holds zeros for descriptors, and         *)
(* descriptor 0 is likely somebody's; one that was closed already may have *)
(* been given out again.                                                   *)
(***************************************************************************)
NeverClosesOthers ==
  [][\A fd \in Fds : owner[fd] = "other" /\ owner'[fd] # "other" => OtherCloses]_vars

(***************************************************************************)
(* However loading ends, the descriptors of the loader are closed when     *)
(* bpf_load_and_run returns, and those of the object once the skeleton is  *)
(* gone; only a descriptor that came out as 0 stays open.                  *)
(***************************************************************************)
NoFdLeak ==
  /\ pc \in {"finalize", "attach", "detach", "gone"} => \A fd \in Fds : owner[fd] \notin Loaders
  /\ pc = "gone" => \A fd \in Fds : owner[fd] \in Objects => fd = 0

(***************************************************************************)
(* "At this point bpf_load_and_run() finished without error and 'fd' is a  *)
(* valid bpf map FD": success is reported only if the maps are there.      *)
(***************************************************************************)
FinalizeFdValid == pc = "finalize" => owner[desc[i].map_fd] = "map"

(***************************************************************************)
(* The error that bpf_load_and_run returns is that of the step that        *)
(* failed, in the kernel and in user space, where a system call returns    *)
(* -1 and keeps the number in errno: the two closes on the way out, which  *)
(* may fail as well, do not put theirs in its place.  errstr names a step  *)
(* exactly if one has failed.                                              *)
(***************************************************************************)
Returning == {"out", "out_prog", "finalize", "attach", "detach"}

ErrIsFirstFailure ==
  pc \in Returning => err = -failed /\ (errstr # "none" <=> err < 0)

(***************************************************************************)
(* The buffers: they are there when the loader program reads them, and it  *)
(* is told where; nothing is freed that is not a buffer in use; and in the *)
(* kernel the pointer into a map that replaces one is held only while the  *)
(* map is open.                                                            *)
(***************************************************************************)
DataSound ==
  /\ pc = "run" => /\ \A m \in Maps : desc[m].initial_value = "buffer" /\ mem[m] = "live"
                   /\ flags = "BPF_SKEL_KERNEL" <=> kernel
  /\ \A m \in Maps : mem[m] # "corrupt"
  /\ pc \in {"finalize", "attach"} => \A m \in Maps :
       data[m] = "value" => owner[desc[m].map_fd] = "map"

(***************************************************************************)
(* All buffers are released with the skeleton, but for one whose mapping   *)
(* over the buffer failed in user space: its address is lost with the NULL *)
(* that is returned.                                                       *)
(***************************************************************************)
MemReleased ==
  pc = "gone" => \A m \in Maps :
    \/ mem[m] \in {"none", "freed"}
    \/ ~kernel /\ data[m] = "null" /\ desc[m].initial_value = "buffer"
=============================================================================
