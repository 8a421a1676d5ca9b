---------------------------- MODULE HeaderProofs ----------------------------
(***************************************************************************)
(* What the headers hold that belongs to no one program: the safety        *)
(* properties of Skel for any number of maps, descriptors and errors, and  *)
(* those of Crc for any fields.                                            *)
(***************************************************************************)
EXTENDS Skel, Crc, TLAPS

-----------------------------------------------------------------------------
(* Skel *)

(***************************************************************************)
(* The inductive invariant.  LoaderInv: the loader's map and program are   *)
(* open under the descriptors in bpf_load_and_run's two locals and under   *)
(* no others, from the call that makes each to the one that closes it.     *)
(***************************************************************************)
LoaderInv ==
  /\ pc \in {"open", "prep", "create"} => map_fd = -1
  /\ pc \in {"open", "prep", "create", "update", "load"} => prog_fd = -1
  /\ pc \in {"update", "load", "run", "out"} /\ map_fd >= 0 => owner[map_fd] = "loader_map"
  /\ pc \in {"run", "out", "out_prog"} /\ prog_fd >= 0 => owner[prog_fd] = "loader_prog"
  /\ \A fd \in Fds : owner[fd] = "loader_map" => pc \in {"update", "load", "run", "out"} /\ fd = map_fd
  /\ \A fd \in Fds : owner[fd] = "loader_prog" => pc \in {"run", "out", "out_prog"} /\ fd = prog_fd

(***************************************************************************)
(* ProgInv: prog is set when the loader program has succeeded, and with it *)
(* the descriptors of the maps; the program is open until it is closed.    *)
(***************************************************************************)
Closing == {"free_data", "close_map", "gone"}

ProgInv ==
  /\ pc \in {"open", "prep", "create", "update", "load", "run"} => prog = 0
  /\ pc \in {"out", "out_prog"} => (prog > 0 <=> err >= 0)
  /\ pc \in {"finalize", "attach"} => prog > 0
  /\ prog > 0 /\ pc \notin Closing => owner[prog] = "prog"
  /\ \A fd \in Fds : owner[fd] = "prog" => fd = prog /\ prog > 0 /\ pc \notin Closing

(***************************************************************************)
(* MapInv: the maps are open under descriptors of their own until each is  *)
(* closed.                                                                 *)
(***************************************************************************)
Remains(m) == pc # "gone" /\ (pc \in {"free_data", "close_map"} => m >= i)

MapInv ==
  /\ prog = 0 => /\ \A m \in Maps : desc[m].map_fd = 0
                 /\ \A fd \in Fds : owner[fd] # "map"
  /\ prog > 0 => /\ \A m, n \in Maps : m # n => desc[m].map_fd # desc[n].map_fd
                 /\ \A m \in Maps : Remains(m) => owner[desc[m].map_fd] = "map"
  /\ \A fd \in Fds : owner[fd] = "map" => fd = 0 \/ \E m \in Maps : Remains(m) /\ desc[m].map_fd = fd
  /\ pc \in {"attach", "detach", "close_prog"} => i = 1

\* LinkInv: the link is open from Attach to Detach.
LinkInv ==
  /\ link > 0 => pc = "detach" /\ owner[link] = "link"
  /\ \A fd \in Fds : owner[fd] = "link" => fd = 0 \/ fd = link

\* ErrInv: no failure so far, or that of the step that has led to out, which
\* is returned.
ErrInv ==
  /\ pc \in {"open", "prep"} => err = 0
  /\ pc \in {"open", "prep", "create", "update", "load", "run"} => failed = 0 /\ errstr = "none"
  /\ ErrIsFirstFailure

(***************************************************************************)
(* DataInv: where each map's initial value is.  It has not been prepared,  *)
(* is in its buffer, has been handed to the map, or (in user space, where  *)
(* mapping it failed) is in a buffer whose address is lost; in the end it  *)
(* is released.                                                            *)
(***************************************************************************)
Unprepared(m) == mem[m] = "none" /\ data[m] = "null" /\ desc[m].initial_value = "null"

Buffered(m) == mem[m] = "live" /\ data[m] = "buffer" /\ desc[m].initial_value = "buffer"

Handed(m) ==
  IF kernel THEN mem[m] = "freed" /\ desc[m].initial_value = "ones"
  ELSE mem[m] = "mapped" /\ data[m] = "buffer" /\ desc[m].initial_value = "buffer"

Lost(m) == ~kernel /\ mem[m] = "live" /\ data[m] = "null" /\ desc[m].initial_value = "buffer"

Released(m) == mem[m] \in {"none", "freed"} \/ Lost(m)

\* What destroying the skeleton may find.
Held(m) == Unprepared(m) \/ Buffered(m) \/ Handed(m) \/ Lost(m)

DataInv ==
  \A m \in Maps :
    /\ pc = "open" => i = 1 /\ Unprepared(m)
    /\ pc = "prep" => IF m < i THEN Buffered(m) ELSE Unprepared(m)
    /\ pc \in {"create", "update", "load", "run", "out", "out_prog"} => Buffered(m)
    /\ pc = "finalize" => IF m < i THEN Handed(m) ELSE Buffered(m)
    /\ pc = "attach" => Handed(m)
    /\ pc \in {"detach", "close_prog"} => Held(m)
    /\ pc = "free_data" => IF m < i THEN Released(m) ELSE Held(m)
    /\ pc = "close_map" => IF m <= i THEN Released(m) ELSE Held(m)
    /\ pc = "gone" => Released(m)

FlagsInv == pc \notin {"open", "gone"} => (flags = "BPF_SKEL_KERNEL" <=> kernel)

FdInv == LoaderInv /\ ProgInv /\ MapInv /\ LinkInv

IndInv == TypeOK /\ FdInv /\ ErrInv /\ DataInv /\ FlagsInv

-----------------------------------------------------------------------------
(* System calls *)

(***************************************************************************)
(* An error is negative, whichever way it is reported.                     *)
(***************************************************************************)
LEMMA ErrorCodes ==
  ASSUME NEW e \in Errors
  PROVE  /\ e \in Nat /\ e > 0 /\ -e < 0 /\ -e \in Results
         /\ Fails(e) \in Results /\ Fails(e) < 0
         /\ set_err(e) = -e
<1>1. e \in Nat /\ e > 0 /\ -e < 0
  BY ErrorsAssumption
<1>2. -e \in Results /\ -1 \in Results
  BY DEF Results
<1> QED
  BY <1>1, <1>2 DEF Fails, set_err

(***************************************************************************)
(* A descriptor is a number, and 0 is one.                                 *)
(***************************************************************************)
LEMMA FdFacts ==
  /\ 0 \in Fds /\ 1 \in Maps
  /\ \A fd \in Fds : fd \in Results /\ fd \in Nat
  /\ \A x \in Results : x \in Int /\ (x >= 0 => x \in Fds)
<1>1. 0 \in Fds /\ 1 \in Maps /\ \A fd \in Fds : fd \in Nat
  BY NMapsAssumption, MaxFdAssumption DEF Fds, Maps
<1>2. ASSUME NEW x \in Results
      PROVE  x \in Int /\ (x >= 0 => x \in Fds)
  <2>1. CASE x \in Fds
    BY <1>1, <2>1
  <2>2. CASE x = -1
    BY <2>2
  <2>3. ASSUME NEW e \in Errors, x = -e
        PROVE  x \in Int /\ x < 0
    BY <2>3, ErrorsAssumption
  <2> QED
    BY <2>1, <2>2, <2>3 DEF Results
<1> QED
  BY <1>1, <1>2 DEF Results

(***************************************************************************)
(* The maps are numbered up to NMaps.                                      *)
(***************************************************************************)
LEMMA MapNumbers ==
  \A m \in Maps : m \in Nat /\ m >= 1 /\ m <= NMaps /\ NMaps \in Nat /\ (m + 1 \in Maps \/ m = NMaps)
BY NMapsAssumption DEF Maps

(***************************************************************************)
(* A descriptor that is opened was free.                                   *)
(***************************************************************************)
LEMMA Opens ==
  ASSUME TypeOK, NEW fd \in Fds, LowestFree(fd), NEW w, owner' = [owner EXCEPT ![fd] = w]
  PROVE  /\ owner[fd] = "none" /\ owner'[fd] = w
         /\ \A g \in Fds : g # fd => owner'[g] = owner[g]
BY DEF TypeOK, LowestFree, Free

(***************************************************************************)
(* Closing descriptors frees them, and no others.                          *)
(***************************************************************************)
LEMMA Closes ==
  ASSUME NEW S, owner' = Closed(S)
  PROVE  \A fd \in Fds : owner'[fd] = IF fd \in S THEN "none" ELSE owner[fd]
BY DEF Closed

-----------------------------------------------------------------------------
(* Types *)

Owners == {"none", "other"} \cup Loaders \cup Objects

(***************************************************************************)
(* Opening and closing keeps the type of the descriptor table.             *)
(***************************************************************************)
LEMMA OwnerTypes ==
  ASSUME TypeOK
  PROVE  /\ \A S : Closed(S) \in [Fds -> Owners]
         /\ \A fd \in Fds, w \in Owners : [owner EXCEPT ![fd] = w] \in [Fds -> Owners]
BY DEF TypeOK, Closed, Owners

(***************************************************************************)
(* Type correctness of each step.                                          *)
(***************************************************************************)
LEMMA TypeStep == TypeOK /\ [Next]_vars => TypeOK'
<1> SUFFICES ASSUME TypeOK, [Next]_vars
             PROVE  TypeOK'
  OBVIOUS
<1>1. CASE skel_alloc
  BY <1>1 DEF TypeOK, skel_alloc, Goto, loader, Flags
<1>2. CASE skel_prep_map_data
  <2>1. WithInit(desc[i], "buffer") \in MapDesc
    BY DEF TypeOK, MapDesc, WithInit
  <2>2. i + 1 \in Maps \/ i = NMaps
    BY MapNumbers DEF TypeOK
  <2>3. /\ pc' \in {"prep", "create", "detach"} /\ i' \in Maps
        /\ UNCHANGED <<kernel, owner, loader, flags, prog, link>>
    BY <1>2, <2>2, FdFacts DEF TypeOK, skel_prep_map_data, Goto
  <2>4. \/ /\ mem' = [mem EXCEPT ![i] = "live"]
           /\ data' = [data EXCEPT ![i] = "buffer"]
           /\ desc' = [desc EXCEPT ![i] = WithInit(desc[i], "buffer")]
        \/ UNCHANGED <<mem, data, desc>>
    BY <1>2 DEF skel_prep_map_data
  <2>5. desc' \in [Maps -> MapDesc]
    BY <2>1, <2>4 DEF TypeOK
  <2>6. /\ data' \in [Maps -> {"null", "buffer", "value"}]
        /\ mem' \in [Maps -> {"none", "live", "mapped", "freed", "corrupt"}]
    BY <2>4 DEF TypeOK
  <2> QED
    BY <2>3, <2>5, <2>6 DEF TypeOK, loader
<1>3. ASSUME NEW e \in Errors, NEW what \in Errstr, StepFails(e, what)
      PROVE  /\ kernel' \in BOOLEAN /\ pc' = "out" /\ i' \in Maps
             /\ owner' \in [Fds -> {"none", "other"} \cup Loaders \cup Objects]
             /\ err' \in Results /\ errno' \in {0} \cup Errors /\ failed' \in {0} \cup Errors
             /\ errstr' \in Errstr /\ flags' \in Flags
             /\ desc' \in [Maps -> MapDesc] /\ data' \in [Maps -> {"null", "buffer", "value"}]
             /\ mem' \in [Maps -> {"none", "live", "mapped", "freed", "corrupt"}]
             /\ prog' \in Fds /\ link' \in Fds
  BY <1>3, ErrorCodes DEF TypeOK, StepFails, Goto, skel
<1>4. CASE skel_map_create
  <2>1. ASSUME NEW fd \in Fds, owner' = [owner EXCEPT ![fd] = "loader_map"],
               map_fd' = fd, err' = fd, pc' = "update",
               UNCHANGED <<kernel, i, prog_fd, errno, errstr, failed, skel>>
        PROVE  TypeOK'
    BY <2>1, FdFacts, OwnerTypes DEF TypeOK, skel, Owners, Loaders
  <2>2. ASSUME NEW e \in Errors, map_fd' = Fails(e), StepFails(e, "create"), prog_fd' = prog_fd
        PROVE  TypeOK'
    BY <1>3, <2>2, ErrorCodes DEF TypeOK, Errstr
  <2> QED
    BY <1>4, <2>1, <2>2 DEF skel_map_create, Goto
<1>5. CASE skel_map_update_elem
  <2>1. ASSUME NEW e \in Errors, StepFails(e, "update"), UNCHANGED <<map_fd, prog_fd>>
        PROVE  TypeOK'
    BY <1>3, <2>1 DEF TypeOK, Errstr
  <2>2. CASE /\ err' = 0 /\ pc' = "load"
             /\ UNCHANGED <<kernel, i, owner, map_fd, prog_fd, errno, errstr, failed, skel>>
    BY <2>2, FdFacts DEF TypeOK, skel
  <2> QED
    BY <1>5, <2>1, <2>2 DEF skel_map_update_elem, Goto
<1>6. CASE LoadLoader
  <2>1. ASSUME NEW fd \in Fds, owner' = [owner EXCEPT ![fd] = "loader_prog"],
               prog_fd' = fd, err' = fd, pc' = "run",
               UNCHANGED <<kernel, i, map_fd, errno, errstr, failed, skel>>
        PROVE  TypeOK'
    BY <2>1, FdFacts, OwnerTypes DEF TypeOK, skel, Owners, Loaders
  <2>2. ASSUME NEW e \in Errors, prog_fd' = Fails(e), StepFails(e, "load"), map_fd' = map_fd
        PROVE  TypeOK'
    BY <1>3, <2>2, ErrorCodes DEF TypeOK, Errstr
  <2> QED
    BY <1>6, <2>1, <2>2 DEF LoadLoader, Goto
<1>7. CASE RunLoader
  <2>1. PICK fds \in [1 .. NMaps + 1 -> Free] :
          /\ owner' = [fd \in Fds |-> CASE fd \in {fds[k] : k \in Maps} -> "map"
                                        [] fd = fds[NMaps + 1] -> "prog"
                                        [] OTHER -> owner[fd]]
          /\ desc' = [k \in Maps |-> [map_fd |-> fds[k], initial_value |-> desc[k].initial_value]]
          /\ prog' = fds[NMaps + 1]
    BY <1>7 DEF RunLoader
  <2>2. (\A k \in Maps : fds[k] \in Fds) /\ fds[NMaps + 1] \in Fds
    BY NMapsAssumption DEF Maps, Free
  <2>3. owner' \in [Fds -> {"none", "other"} \cup Loaders \cup Objects]
    BY <2>1 DEF TypeOK, Objects
  <2>4. desc' \in [Maps -> MapDesc]
    BY <2>1, <2>2 DEF TypeOK, MapDesc
  <2>5. err' = 0 /\ pc' = "out"
        /\ UNCHANGED <<kernel, i, map_fd, prog_fd, errno, errstr, failed, flags, data, mem, link>>
    BY <1>7 DEF RunLoader, Goto
  <2> QED
    BY <2>1, <2>2, <2>3, <2>4, <2>5, FdFacts DEF TypeOK
<1>8. CASE RunLoaderFails
  <2>1. PICK e \in Errors, retval \in {0} \cup {-x : x \in Errors} :
          /\ retval \in {0, -e}
          /\ err' = RunFails(e, retval)
          /\ errno' = IF kernel THEN errno ELSE e
          /\ failed' = e
    BY <1>8 DEF RunLoaderFails
  <2>2. err' \in Results
    BY <2>1, ErrorCodes DEF RunFails
  <2>3. errstr' = "execute" /\ pc' = "out" /\ UNCHANGED <<kernel, i, owner, map_fd, prog_fd, skel>>
    BY <1>8 DEF RunLoaderFails, Goto
  <2> QED
    BY <2>1, <2>2, <2>3 DEF TypeOK, Errstr, skel
<1>9. CASE OutMap \/ OutProg
  <2>1. errno' \in {0} \cup Errors
    BY <1>9 DEF TypeOK, OutMap, OutProg, CloseErrno
  <2>2. owner' \in [Fds -> Owners]
    BY <1>9, OwnerTypes DEF OutMap, OutProg
  <2>3. /\ pc' \in {"out_prog", "detach", "finalize"} /\ i' \in Maps
        /\ UNCHANGED <<kernel, map_fd, prog_fd, err, errstr, failed, skel>>
    BY <1>9, FdFacts DEF TypeOK, OutMap, OutProg, Goto
  <2> QED
    BY <2>1, <2>2, <2>3 DEF TypeOK, skel, Owners
<1>10. CASE Finalize
  <2>1. PICK r \in skel_finalize_map_data(desc[i].initial_value, mem[i], desc[i].map_fd) :
          /\ mem' = [mem EXCEPT ![i] = r.mem]
          /\ desc' = [desc EXCEPT ![i] = WithInit(@, r.init)]
          /\ data' = [data EXCEPT ![i] = r.ret]
          /\ pc' = CASE r.ret = "null" -> "detach"
                     [] r.ret # "null" /\ i = NMaps -> "attach"
                     [] OTHER -> "finalize"
          /\ i' = IF r.ret = "null" \/ i = NMaps THEN 1 ELSE i + 1
    BY <1>10 DEF Finalize, Goto
  <2>2. i \in Maps /\ desc[i] \in MapDesc /\ mem[i] \in {"none", "live", "mapped", "freed", "corrupt"}
    BY DEF TypeOK
  <2>3. /\ r.mem \in {"none", "live", "mapped", "freed", "corrupt"}
        /\ r.init \in {"null", "buffer", "ones"}
        /\ r.ret \in {"null", "buffer", "value"}
    BY <2>2 DEF MapDesc, skel_finalize_map_data, finalize_kernel, finalize_user, Kvfree
  <2>4. WithInit(desc[i], r.init) \in MapDesc
    BY <2>2, <2>3 DEF MapDesc, WithInit
  <2>5. i + 1 \in Maps \/ i = NMaps
    BY <2>2, MapNumbers
  <2>6. UNCHANGED <<kernel, owner, loader, flags, prog, link>>
    BY <1>10 DEF Finalize
  <2>7. i' \in Maps /\ pc' \in {"detach", "attach", "finalize"}
    BY <2>1, <2>2, <2>5, FdFacts
  <2>8. desc' \in [Maps -> MapDesc]
    BY <2>1, <2>2, <2>4 DEF TypeOK
  <2>9. /\ data' \in [Maps -> {"null", "buffer", "value"}]
        /\ mem' \in [Maps -> {"none", "live", "mapped", "freed", "corrupt"}]
    BY <2>1, <2>2, <2>3 DEF TypeOK
  <2> QED
    BY <2>6, <2>7, <2>8, <2>9 DEF TypeOK, loader
<1>11. CASE Attach
  BY <1>11, FdFacts, OwnerTypes DEF TypeOK, Attach, Goto, loader, Owners, Objects
<1>12. CASE Detach
  BY <1>12, FdFacts, OwnerTypes DEF TypeOK, Detach, Goto, loader, Owners
<1>13. CASE CloseProg
  BY <1>13, FdFacts, OwnerTypes DEF TypeOK, CloseProg, Goto, loader, skel, Owners
<1>14. CASE FreeData
  <2>1. skel_free_map_data(data[i], desc[i].initial_value, mem[i])
          \in {"none", "live", "mapped", "freed", "corrupt"}
    BY DEF TypeOK, skel_free_map_data, Kvfree, Munmap
  <2> QED
    BY <1>14, <2>1 DEF TypeOK, FreeData, Goto, loader
<1>15. CASE CloseMap
  <2>1. i + 1 \in Maps \/ i = NMaps
    BY MapNumbers DEF TypeOK
  <2>2. i' \in Maps /\ pc' \in {"gone", "free_data"} /\ UNCHANGED <<kernel, loader, skel>>
    BY <1>15, <2>1 DEF TypeOK, CloseMap, Goto
  <2>3. owner' \in [Fds -> Owners]
    BY <1>15, OwnerTypes DEF CloseMap
  <2> QED
    BY <2>2, <2>3 DEF TypeOK, loader, skel, Owners
<1>16. CASE OtherOpens
  BY <1>16, OwnerTypes DEF TypeOK, OtherOpens, loader, skel, Owners
<1>17. CASE OtherCloses
  BY <1>17, OwnerTypes DEF TypeOK, OtherCloses, loader, skel, Owners
<1>18. CASE UNCHANGED vars
  BY <1>18 DEF TypeOK, vars, loader, skel
<1> QED
  BY <1>1, <1>2, <1>4, <1>5, <1>6, <1>7, <1>8, <1>9, <1>10, <1>11, <1>12, <1>13, <1>14, <1>15,
     <1>16, <1>17, <1>18 DEF Next, bpf_load_and_run
-----------------------------------------------------------------------------
(* Descriptors *)

\* What a step may leave alone.
SameDescFds == \A m \in Maps : desc'[m].map_fd = desc[m].map_fd

(***************************************************************************)
(* Setting an initial value leaves the maps' descriptors alone.            *)
(***************************************************************************)
LEMMA InitKeepsFds ==
  ASSUME TypeOK, NEW x, desc' = [desc EXCEPT ![i] = WithInit(desc[i], x)]
  PROVE  SameDescFds
BY DEF TypeOK, WithInit, SameDescFds

(***************************************************************************)
(* Memory for the skeleton and its initial values: no descriptor is made.  *)
(***************************************************************************)
LEMMA PrepareFds ==
  ASSUME TypeOK, FdInv, skel_alloc \/ skel_prep_map_data
  PROVE  FdInv'
<1>1. /\ pc \in {"open", "prep"} /\ pc' \in {"prep", "create", "detach", "gone"}
      /\ pc' = "detach" => i' = 1
      /\ UNCHANGED <<owner, map_fd, prog_fd, prog, link>>
  BY DEF skel_alloc, skel_prep_map_data, Goto, loader
<1>2. SameDescFds
  <2>1. desc' = desc \/ desc' = [desc EXCEPT ![i] = WithInit(desc[i], "buffer")]
    BY DEF skel_alloc, skel_prep_map_data
  <2> QED
    BY <2>1, InitKeepsFds DEF SameDescFds
<1>3. prog = 0 /\ link \in Nat
  BY <1>1, FdFacts DEF TypeOK, FdInv, ProgInv
<1>4. LoaderInv'
  BY <1>1 DEF FdInv, LoaderInv
<1>5. ProgInv'
  BY <1>1, <1>3 DEF FdInv, ProgInv, Closing
<1>6. MapInv'
  BY <1>1, <1>2, <1>3 DEF FdInv, MapInv, SameDescFds, Remains
<1>7. LinkInv'
  BY <1>1, <1>3 DEF FdInv, LinkInv
<1> QED
  BY <1>4, <1>5, <1>6, <1>7 DEF FdInv

(***************************************************************************)
(* A step of bpf_load_and_run before its end, which leaves the object      *)
(* unmade: it may open the loader's map or program, or fail.               *)
(***************************************************************************)
LEMMA LoaderFds ==
  ASSUME TypeOK, FdInv, skel_map_create \/ skel_map_update_elem \/ LoadLoader \/ RunLoaderFails
  PROVE  FdInv'
<1>1. /\ pc \in {"create", "update", "load", "run"}
      /\ pc' \in {"update", "load", "run", "out"}
      /\ UNCHANGED <<desc, prog, link>>
  BY DEF skel_map_create, skel_map_update_elem, LoadLoader, RunLoaderFails, StepFails, Goto, skel
<1>2. pc' = "out" => err' < 0
  <2>1. ASSUME NEW e \in Errors, NEW w, StepFails(e, w)
        PROVE  err' < 0
    BY <2>1, ErrorCodes DEF StepFails
  <2>2. ASSUME NEW e \in Errors, NEW retval \in {0, -e}
        PROVE  RunFails(e, retval) < 0
    BY ErrorCodes DEF RunFails
  <2> QED
    BY <2>1, <2>2 DEF skel_map_create, skel_map_update_elem, LoadLoader, RunLoaderFails, Goto
<1>3. prog = 0 /\ link = 0
  BY <1>1, FdFacts DEF TypeOK, FdInv, ProgInv, LinkInv
<1>4. \/ owner' = owner
      \/ \E fd \in Fds : LowestFree(fd) /\ \E w \in Loaders : owner' = [owner EXCEPT ![fd] = w]
  BY DEF skel_map_create, skel_map_update_elem, LoadLoader, RunLoaderFails, StepFails, Loaders
<1>5. \A fd \in Fds : owner'[fd] = owner[fd] \/ owner'[fd] \in Loaders
  <2>1. ASSUME NEW fd \in Fds, LowestFree(fd), NEW w \in Loaders, owner' = [owner EXCEPT ![fd] = w]
        PROVE  \A g \in Fds : owner'[g] = owner[g] \/ owner'[g] \in Loaders
    <3>1. owner'[fd] = w /\ \A g \in Fds : g # fd => owner'[g] = owner[g]
      BY <2>1, Opens
    <3> QED
      BY <3>1
  <2> QED
    BY <1>4, <2>1
<1>6. LoaderInv'
  <2>1. CASE skel_map_create
    <3>1. pc = "create" /\ prog_fd' = -1 /\ \A fd \in Fds : owner[fd] \notin Loaders
      BY <2>1 DEF skel_map_create, FdInv, LoaderInv, Loaders
    <3>2. ASSUME NEW fd \in Fds, LowestFree(fd), owner' = [owner EXCEPT ![fd] = "loader_map"],
                 map_fd' = fd, pc' = "update"
          PROVE  LoaderInv'
      BY <3>1, <3>2, Opens DEF LoaderInv, Loaders
    <3>3. ASSUME NEW e \in Errors, map_fd' = Fails(e), StepFails(e, "create")
          PROVE  LoaderInv'
      <4>1. map_fd' \in Int /\ map_fd' < 0 /\ owner' = owner /\ pc' = "out"
        BY <3>3, ErrorCodes, FdFacts DEF StepFails, Goto
      <4> QED
        BY <3>1, <4>1 DEF LoaderInv, Loaders
    <3> QED
      BY <2>1, <3>2, <3>3 DEF skel_map_create, Goto
  <2>2. CASE skel_map_update_elem
    BY <2>2 DEF skel_map_update_elem, StepFails, Goto, FdInv, LoaderInv
  <2>3. CASE LoadLoader
    <3>1. /\ pc = "load" /\ map_fd' = map_fd /\ \A fd \in Fds : owner[fd] # "loader_prog"
          /\ map_fd >= 0 => owner[map_fd] = "loader_map" /\ map_fd \in Fds
          /\ \A fd \in Fds : owner[fd] = "loader_map" => fd = map_fd
      BY <2>3, FdFacts DEF LoadLoader, TypeOK, FdInv, LoaderInv
    <3>2. ASSUME NEW fd \in Fds, LowestFree(fd), owner' = [owner EXCEPT ![fd] = "loader_prog"],
                 prog_fd' = fd, pc' = "run"
          PROVE  LoaderInv'
      BY <3>1, <3>2, Opens DEF LoaderInv
    <3>3. ASSUME NEW e \in Errors, prog_fd' = Fails(e), StepFails(e, "load")
          PROVE  LoaderInv'
      <4>1. prog_fd' \in Int /\ prog_fd' < 0 /\ owner' = owner /\ pc' = "out"
        BY <3>3, ErrorCodes, FdFacts DEF StepFails, Goto
      <4> QED
        BY <3>1, <4>1 DEF LoaderInv
    <3> QED
      BY <2>3, <3>2, <3>3 DEF LoadLoader, Goto
  <2>4. CASE RunLoaderFails
    BY <2>4 DEF RunLoaderFails, Goto, FdInv, LoaderInv
  <2> QED
    BY <2>1, <2>2, <2>3, <2>4
<1>7. ProgInv'
  <2>1. err' \in Int
    BY <1>1, TypeStep, FdFacts DEF TypeOK, Next, bpf_load_and_run
  <2> QED
    BY <1>1, <1>2, <1>3, <1>5, <2>1 DEF FdInv, ProgInv, Loaders
<1>8. MapInv'
  BY <1>1, <1>3, <1>5 DEF FdInv, MapInv, Loaders, Remains
<1>9. LinkInv'
  BY <1>1, <1>3, <1>5 DEF FdInv, LinkInv, Loaders
<1> QED
  BY <1>6, <1>7, <1>8, <1>9 DEF FdInv
(***************************************************************************)
(* The loader program succeeds: the descriptors it has opened are free     *)
(* ones, all different, and only the first of them may be 0.               *)
(***************************************************************************)
LEMMA RunLoaderFds ==
  ASSUME TypeOK, FdInv, RunLoader
  PROVE  FdInv'
<1>1. PICK fds \in [1 .. NMaps + 1 -> Free] :
        /\ \A k, n \in DOMAIN fds : k < n => fds[k] < fds[n]
        /\ owner' = [fd \in Fds |-> CASE fd \in {fds[k] : k \in Maps} -> "map"
                                      [] fd = fds[NMaps + 1] -> "prog"
                                      [] OTHER -> owner[fd]]
        /\ desc' = [k \in Maps |-> [map_fd |-> fds[k], initial_value |-> desc[k].initial_value]]
        /\ prog' = fds[NMaps + 1]
  BY DEF RunLoader
<1>2. pc = "run" /\ pc' = "out" /\ err' = 0 /\ UNCHANGED <<map_fd, prog_fd, link>>
  BY DEF RunLoader, Goto
<1>3. prog = 0 /\ link = 0
  BY <1>2, FdFacts DEF TypeOK, FdInv, ProgInv, LinkInv
<1>4. /\ NMaps + 1 \in 1 .. NMaps + 1
      /\ \A m \in Maps : m \in 1 .. NMaps + 1 /\ m < NMaps + 1
      /\ \A m, n \in Maps : m # n => m < n \/ n < m
  BY NMapsAssumption DEF Maps
<1>5. \A k \in 1 .. NMaps + 1 : fds[k] \in Fds /\ fds[k] \in Nat /\ owner[fds[k]] = "none"
  BY <1>1, FdFacts DEF Free
<1>6. /\ \A m \in Maps : fds[m] < fds[NMaps + 1]
      /\ \A m, n \in Maps : m # n => fds[m] # fds[n]
  BY <1>1, <1>4, <1>5
<1>7. fds[NMaps + 1] \in Fds /\ fds[NMaps + 1] > 0 /\ \A m \in Maps : fds[m] # fds[NMaps + 1]
  BY <1>4, <1>5, <1>6, FdFacts
<1>8. /\ \A m \in Maps : fds[m] \in Fds /\ owner'[fds[m]] = "map" /\ desc'[m].map_fd = fds[m]
      /\ owner'[prog'] = "prog"
      /\ \A fd \in Fds : \/ owner'[fd] = owner[fd]
                         \/ owner'[fd] = "map" /\ owner[fd] = "none" /\ \E m \in Maps : fd = fds[m]
                         \/ owner'[fd] = "prog" /\ owner[fd] = "none" /\ fd = prog'
  BY <1>1, <1>4, <1>5, <1>7
<1>9. LoaderInv'
  <2>1. /\ map_fd >= 0 => map_fd \in Fds
        /\ prog_fd >= 0 => prog_fd \in Fds
    BY FdFacts DEF TypeOK
  <2> QED
    BY <1>2, <1>8, <2>1 DEF FdInv, LoaderInv
<1>10. ProgInv'
  BY <1>1, <1>2, <1>3, <1>7, <1>8 DEF FdInv, ProgInv, Closing
<1>11. MapInv'
  BY <1>1, <1>2, <1>3, <1>6, <1>7, <1>8 DEF FdInv, MapInv, Remains
<1>12. LinkInv'
  BY <1>2, <1>3, <1>8 DEF FdInv, LinkInv
<1> QED
  BY <1>9, <1>10, <1>11, <1>12 DEF FdInv

(***************************************************************************)
(* The end of bpf_load_and_run closes the loader's map and then its        *)
(* program: each is its own still when it is closed, and there are no      *)
(* others.                                                                 *)
(***************************************************************************)
LEMMA OutFds ==
  ASSUME TypeOK, FdInv, OutMap \/ OutProg
  PROVE  FdInv'
<1>1. UNCHANGED <<map_fd, prog_fd, err, desc, prog, link>>
  BY DEF OutMap, OutProg, skel
<1>2. /\ prog \in Fds /\ link \in Fds /\ err \in Int
      /\ \A m \in Maps : desc[m].map_fd \in Fds
      /\ prog_fd >= 0 => prog_fd \in Fds
      /\ \A fd \in Fds : fd >= 0
  BY FdFacts DEF TypeOK, MapDesc
<1>3. CASE OutMap
  <2>1. pc = "out" /\ pc' = "out_prog"
    BY <1>3 DEF OutMap, Goto
  <2>2. \A fd \in Fds : owner'[fd] = IF fd \in out_closes(map_fd) THEN "none" ELSE owner[fd]
    BY <1>3, Closes DEF OutMap
  <2>3. \A fd \in Fds : fd \in out_closes(map_fd) <=> owner[fd] = "loader_map"
    BY <1>2, <2>1 DEF FdInv, LoaderInv, out_closes
  <2>4. \A fd \in Fds : owner'[fd] = IF owner[fd] = "loader_map" THEN "none" ELSE owner[fd]
    BY <2>2, <2>3
  <2>5. LoaderInv'
    BY <1>1, <1>2, <2>1, <2>4 DEF FdInv, LoaderInv
  <2>6. ProgInv'
    BY <1>1, <1>2, <2>1, <2>4 DEF FdInv, ProgInv, Closing
  <2>7. MapInv'
    BY <1>1, <1>2, <2>1, <2>4 DEF FdInv, MapInv, Remains
  <2>8. LinkInv'
    BY <1>1, <1>2, <2>1, <2>4 DEF FdInv, LinkInv
  <2> QED
    BY <2>5, <2>6, <2>7, <2>8 DEF FdInv
<1>4. CASE OutProg
  <2>1. pc = "out_prog" /\ pc' = (IF err < 0 THEN "detach" ELSE "finalize") /\ i' = 1
    BY <1>4 DEF OutProg, Goto
  <2>2. \A fd \in Fds : owner'[fd] = IF fd \in out_closes(prog_fd) THEN "none" ELSE owner[fd]
    BY <1>4, Closes DEF OutProg
  <2>3. \A fd \in Fds : fd \in out_closes(prog_fd) <=> owner[fd] = "loader_prog"
    BY <1>2, <2>1 DEF FdInv, LoaderInv, out_closes
  <2>4. \A fd \in Fds : owner'[fd] = IF owner[fd] = "loader_prog" THEN "none" ELSE owner[fd]
    BY <2>2, <2>3
  <2>5. LoaderInv'
    BY <1>1, <2>1, <2>4 DEF FdInv, LoaderInv
  <2>6. ProgInv'
    BY <1>1, <1>2, <2>1, <2>4, FdFacts DEF FdInv, ProgInv, Closing
  <2>7. MapInv'
    BY <1>1, <1>2, <2>1, <2>4 DEF FdInv, MapInv, Remains
  <2>8. LinkInv'
    BY <1>1, <1>2, <2>1, <2>4 DEF FdInv, LinkInv
  <2> QED
    BY <2>5, <2>6, <2>7, <2>8 DEF FdInv
<1> QED
  BY <1>3, <1>4

(***************************************************************************)
(* Handing the initial values over concerns no descriptor.                 *)
(***************************************************************************)
LEMMA FinalizeFds ==
  ASSUME TypeOK, FdInv, Finalize
  PROVE  FdInv'
<1>1. /\ pc = "finalize" /\ pc' \in {"detach", "attach", "finalize"}
      /\ pc' # "finalize" => i' = 1
      /\ UNCHANGED <<owner, map_fd, prog_fd, prog, link>>
  BY DEF Finalize, Goto, loader
<1>2. SameDescFds
  BY InitKeepsFds DEF Finalize
<1>3. LoaderInv'
  BY <1>1 DEF FdInv, LoaderInv
<1>4. ProgInv'
  BY <1>1 DEF FdInv, ProgInv, Closing
<1>5. MapInv'
  BY <1>1, <1>2 DEF FdInv, MapInv, SameDescFds, Remains
<1>6. LinkInv'
  BY <1>1 DEF FdInv, LinkInv
<1> QED
  BY <1>3, <1>4, <1>5, <1>6 DEF FdInv

(***************************************************************************)
(* A link that comes out as descriptor 0 is not kept; any other is.        *)
(***************************************************************************)
LEMMA AttachFds ==
  ASSUME TypeOK, FdInv, Attach
  PROVE  FdInv'
<1>1. /\ pc = "attach" /\ pc' = "detach" /\ UNCHANGED <<i, map_fd, prog_fd, desc, prog>>
  BY DEF Attach, Goto, loader
<1>2. link = 0
  BY <1>1, FdFacts DEF TypeOK, FdInv, LinkInv
<1> DEFINE Kept(fd) == \/ owner'[fd] = owner[fd]
                       \/ owner[fd] = "none" /\ owner'[fd] = "link" /\ (fd = 0 \/ fd = link')
<1>3. (\A fd \in Fds : Kept(fd)) /\ (link' > 0 => owner'[link'] = "link")
  <2>1. ASSUME NEW fd \in Fds, LowestFree(fd), owner' = [owner EXCEPT ![fd] = "link"],
               link' = IF fd > 0 THEN fd ELSE link
        PROVE  (\A g \in Fds : Kept(g)) /\ (link' > 0 => owner'[link'] = "link")
    <3>1. /\ owner[fd] = "none" /\ owner'[fd] = "link" /\ fd \in Nat
          /\ \A g \in Fds : g # fd => owner'[g] = owner[g]
      BY <2>1, Opens, FdFacts
    <3> QED
      BY <1>2, <2>1, <3>1
  <2>2. CASE UNCHANGED <<owner, link>>
    BY <1>2, <2>2
  <2> QED
    BY <2>1, <2>2 DEF Attach
<1>4. prog \in Fds /\ \A m \in Maps : desc[m].map_fd \in Fds
  BY DEF TypeOK, MapDesc
<1>5. LoaderInv'
  BY <1>1, <1>3 DEF FdInv, LoaderInv
<1>6. ProgInv'
  BY <1>1, <1>3, <1>4 DEF FdInv, ProgInv, Closing
<1>7. MapInv'
  BY <1>1, <1>3, <1>4 DEF FdInv, MapInv, Remains
<1>8. LinkInv'
  BY <1>1, <1>2, <1>3 DEF FdInv, LinkInv
<1> QED
  BY <1>5, <1>6, <1>7, <1>8 DEF FdInv

(***************************************************************************)
(* Closing what a field of the skeleton names, if it is not 0: the link,   *)
(* the program, and map after map.                                         *)
(***************************************************************************)
LEMMA DestroyFds ==
  ASSUME TypeOK, FdInv, Detach \/ CloseProg \/ FreeData \/ CloseMap
  PROVE  FdInv'
<1>1. UNCHANGED <<map_fd, prog_fd, desc, prog>>
  BY DEF Detach, CloseProg, FreeData, CloseMap, loader, skel
<1>2. /\ prog \in Nat /\ prog \in Fds /\ link \in Nat /\ link \in Fds /\ i \in Nat /\ i \in Maps
      /\ \A m \in Maps : desc[m].map_fd \in Fds /\ desc[m].map_fd \in Nat /\ m \in Nat
      /\ \A fd \in Fds : fd \in Nat
  BY FdFacts, MapNumbers DEF TypeOK, MapDesc
<1>3. CASE Detach
  <2>1. pc = "detach" /\ pc' = "close_prog" /\ i' = i /\ link' = 0
    BY <1>3 DEF Detach, Goto
  <2>2. \A fd \in Fds : owner'[fd] = IF fd \in closenz(link) THEN "none" ELSE owner[fd]
    BY <1>3, Closes DEF Detach
  <2>3. \A fd \in Fds : /\ fd \in closenz(link) <=> (fd > 0 /\ fd = link)
                        /\ fd \in closenz(link) => owner[fd] = "link"
    BY <1>2 DEF closenz, FdInv, LinkInv
  <2>4. LoaderInv'
    BY <1>1, <2>1, <2>2, <2>3 DEF FdInv, LoaderInv
  <2>5. ProgInv'
    BY <1>1, <1>2, <2>1, <2>2, <2>3 DEF FdInv, ProgInv, Closing
  <2>6. MapInv'
    BY <1>1, <1>2, <2>1, <2>2, <2>3 DEF FdInv, MapInv, Remains
  <2>7. LinkInv'
    BY <1>2, <2>1, <2>2, <2>3 DEF FdInv, LinkInv
  <2> QED
    BY <2>4, <2>5, <2>6, <2>7 DEF FdInv
<1>4. CASE CloseProg
  <2>1. pc = "close_prog" /\ pc' = "free_data" /\ i' = i /\ link' = link
    BY <1>4 DEF CloseProg, Goto, skel
  <2>2. \A fd \in Fds : owner'[fd] = IF fd \in closenz(prog) THEN "none" ELSE owner[fd]
    BY <1>4, Closes DEF CloseProg
  <2>3. \A fd \in Fds : fd \in closenz(prog) <=> owner[fd] = "prog"
    BY <1>2, <2>1 DEF closenz, FdInv, ProgInv, Closing
  <2>8. \A m \in Maps : Remains(m)' <=> Remains(m)
    BY <1>2, <2>1, MapNumbers DEF Remains, FdInv, MapInv
  <2>9. \A fd \in Fds : owner'[fd] = "map" <=> owner[fd] = "map"
    BY <2>2, <2>3
  <2>4. LoaderInv'
    BY <1>1, <2>1, <2>2, <2>3 DEF FdInv, LoaderInv
  <2>5. ProgInv'
    BY <1>1, <1>2, <2>1, <2>2, <2>3 DEF FdInv, ProgInv, Closing
  <2>6. MapInv'
    BY <1>1, <1>2, <2>1, <2>8, <2>9 DEF FdInv, MapInv
  <2>7. LinkInv'
    BY <1>2, <2>1, <2>2, <2>3 DEF FdInv, LinkInv
  <2> QED
    BY <2>4, <2>5, <2>6, <2>7 DEF FdInv
<1>5. CASE FreeData
  <2>1. pc = "free_data" /\ pc' = "close_map" /\ i' = i /\ link' = link /\ owner' = owner
    BY <1>5 DEF FreeData, Goto
  <2>2. LoaderInv' /\ ProgInv'
    BY <1>1, <2>1 DEF FdInv, LoaderInv, ProgInv, Closing
  <2>3. MapInv' /\ LinkInv'
    BY <1>1, <2>1 DEF FdInv, MapInv, LinkInv, Remains
  <2> QED
    BY <2>2, <2>3 DEF FdInv
<1>6. CASE CloseMap
  <2>1. /\ pc = "close_map" /\ pc' = (IF i = NMaps THEN "gone" ELSE "free_data")
        /\ i' = (IF i = NMaps THEN i ELSE i + 1) /\ link' = link
    BY <1>6 DEF CloseMap, Goto, skel
  <2>2. \A fd \in Fds : owner'[fd] = IF fd \in closenz(desc[i].map_fd) THEN "none" ELSE owner[fd]
    BY <1>6, Closes DEF CloseMap
  <2>3. \A fd \in Fds : /\ fd \in closenz(desc[i].map_fd) <=> (fd > 0 /\ fd = desc[i].map_fd)
                        /\ fd \in closenz(desc[i].map_fd) => owner[fd] = "map"
    BY <1>2, <2>1 DEF closenz, FdInv, MapInv, Remains
  <2>4. LoaderInv'
    BY <1>1, <2>1, <2>2, <2>3 DEF FdInv, LoaderInv
  <2>5. ProgInv'
    BY <1>1, <1>2, <2>1, <2>2, <2>3 DEF FdInv, ProgInv, Closing
  <2>6. MapInv'
    <3>1. \A m \in Maps : Remains(m)' <=> Remains(m) /\ m # i
      BY <1>2, <2>1, MapNumbers DEF Remains
    <3>2. \A m \in Maps : Remains(m)' => Remains(m) /\ (desc[m].map_fd \notin closenz(desc[i].map_fd) \/ prog = 0)
      BY <1>2, <2>3, <3>1 DEF FdInv, MapInv
    <3>3. ASSUME NEW fd \in Fds, owner'[fd] = "map"
          PROVE  owner[fd] = "map" /\ (fd = 0 \/ fd # desc[i].map_fd)
      <4>1. fd = 0 \/ fd > 0
        BY MaxFdAssumption DEF Fds
      <4>2. fd \notin closenz(desc[i].map_fd) /\ owner[fd] = "map"
        BY <2>2, <3>3
      <4> QED
        BY <2>3, <4>1, <4>2
    <3>4. prog = 0 => /\ \A m \in Maps : desc[m].map_fd = 0
                      /\ \A fd \in Fds : owner'[fd] # "map"
      BY <3>3 DEF FdInv, MapInv
    <3>5. prog > 0 => /\ \A m, n \in Maps : m # n => desc[m].map_fd # desc[n].map_fd
                      /\ \A m \in Maps : Remains(m)' => owner'[desc[m].map_fd] = "map"
      BY <1>2, <2>2, <3>2 DEF FdInv, MapInv
    <3>6. \A fd \in Fds : owner'[fd] = "map" =>
            fd = 0 \/ \E m \in Maps : Remains(m)' /\ desc[m].map_fd = fd
      BY <3>1, <3>3 DEF FdInv, MapInv
    <3> QED
      BY <1>1, <2>1, <3>4, <3>5, <3>6 DEF MapInv
  <2>7. LinkInv'
    BY <1>2, <2>1, <2>2, <2>3 DEF FdInv, LinkInv
  <2> QED
    BY <2>4, <2>5, <2>6, <2>7 DEF FdInv
<1> QED
  BY <1>3, <1>4, <1>5, <1>6

(***************************************************************************)
(* Other threads take free descriptors only, and give back their own.      *)
(***************************************************************************)
LEMMA OtherFds ==
  ASSUME TypeOK, FdInv, OtherOpens \/ OtherCloses
  PROVE  FdInv'
<1>1. UNCHANGED <<pc, i, map_fd, prog_fd, err, desc, prog, link>>
  BY DEF OtherOpens, OtherCloses, loader, skel
<1>2. \A fd \in Fds : \/ owner'[fd] = owner[fd]
                      \/ owner[fd] \in {"none", "other"} /\ owner'[fd] \in {"none", "other"}
  <2>1. ASSUME NEW fd \in Fds, LowestFree(fd), owner' = [owner EXCEPT ![fd] = "other"]
        PROVE  owner[fd] = "none" /\ owner'[fd] = "other" /\ \A g \in Fds : g # fd => owner'[g] = owner[g]
    BY <2>1, Opens
  <2>2. ASSUME NEW fd \in Fds, owner[fd] = "other", owner' = [owner EXCEPT ![fd] = "none"]
        PROVE  owner'[fd] = "none" /\ \A g \in Fds : g # fd => owner'[g] = owner[g]
    BY <2>2 DEF TypeOK
  <2> QED
    BY <2>1, <2>2 DEF OtherOpens, OtherCloses
<1>3. /\ prog \in Fds /\ link \in Fds
      /\ \A m \in Maps : desc[m].map_fd \in Fds
      /\ map_fd >= 0 => map_fd \in Fds
      /\ prog_fd >= 0 => prog_fd \in Fds
  BY FdFacts DEF TypeOK, MapDesc
<1>4. LoaderInv'
  BY <1>1, <1>2, <1>3 DEF FdInv, LoaderInv
<1>5. ProgInv'
  BY <1>1, <1>2, <1>3 DEF FdInv, ProgInv, Closing
<1>6. MapInv'
  BY <1>1, <1>2, <1>3 DEF FdInv, MapInv, Remains
<1>7. LinkInv'
  BY <1>1, <1>2, <1>3 DEF FdInv, LinkInv
<1> QED
  BY <1>4, <1>5, <1>6, <1>7 DEF FdInv

(***************************************************************************)
(* The descriptors, at every step.                                         *)
(***************************************************************************)
LEMMA FdStep == TypeOK /\ FdInv /\ [Next]_vars => FdInv'
<1> SUFFICES ASSUME TypeOK, FdInv, [Next]_vars
             PROVE  FdInv'
  OBVIOUS
<1>1. CASE UNCHANGED vars
  <2>1. UNCHANGED <<pc, i, owner, map_fd, prog_fd, err, desc, prog, link>>
    BY <1>1 DEF vars, loader, skel
  <2> QED
    BY <2>1 DEF FdInv, LoaderInv, ProgInv, MapInv, LinkInv, Remains
<1> QED
  BY <1>1, PrepareFds, LoaderFds, RunLoaderFds, OutFds, FinalizeFds, AttachFds, DestroyFds, OtherFds
     DEF Next, bpf_load_and_run

-----------------------------------------------------------------------------
(* Errors *)

(***************************************************************************)
(* No failure, which is 0, is its own error code.                          *)
(***************************************************************************)
LEMMA NoError ==
  ASSUME NEW x, NEW y, x = 0, y = 0
  PROVE  x = -y /\ ~(x < 0)
<1>1. \A n, k \in Int : n + k = 0 => n = -k
  OBVIOUS
<1>2. ~(x < 0)
  OBVIOUS
<1> QED
  BY <1>1, <1>2, 0 \in Int, 0 + 0 = 0

(***************************************************************************)
(* The step that fails leads to out with its error, and the closes that    *)
(* follow, whatever they return, leave err alone; a step that succeeds     *)
(* leaves an err that is not negative.                                     *)
(***************************************************************************)
LEMMA ErrStep == TypeOK /\ ErrInv /\ [Next]_vars => ErrInv'
<1> SUFFICES ASSUME TypeOK, ErrInv, [Next]_vars
             PROVE  ErrInv'
  OBVIOUS
<1>1. ASSUME NEW e \in Errors, NEW what \in {"create", "update", "load", "execute"},
             pc' = "out", failed' = e, err' = -e, errstr' = what
      PROVE  ErrInv'
  BY <1>1, ErrorCodes DEF ErrInv, ErrIsFirstFailure, Returning
<1>2. ASSUME NEW e \in Errors, NEW what \in {"create", "update", "load", "execute"}, StepFails(e, what)
      PROVE  ErrInv'
  BY <1>1, <1>2, ErrorCodes DEF StepFails, Goto
<1>3. CASE /\ pc' \in {"open", "prep", "create", "update", "load", "run"}
           /\ pc \in {"open", "prep", "create", "update", "load", "run"}
           /\ pc' \in {"open", "prep"} => pc \in {"open", "prep"} /\ err' = err
           /\ UNCHANGED <<failed, errstr>>
  BY <1>3 DEF ErrInv, ErrIsFirstFailure, Returning
<1>4. CASE pc' \in {"close_prog", "free_data", "close_map", "gone"}
  BY <1>4 DEF ErrInv, ErrIsFirstFailure, Returning
<1>5. CASE skel_alloc \/ skel_prep_map_data
  <2>1. CASE pc' = "detach"
    <3>1. pc = "prep" /\ UNCHANGED <<err, failed, errstr>>
      BY <1>5, <2>1 DEF skel_alloc, skel_prep_map_data, Goto, loader
    <3>2. err' = 0 /\ failed' = 0 /\ errstr' = "none"
      BY <3>1 DEF ErrInv
    <3>3. err' = -failed' /\ ~(err' < 0)
      BY <3>2, NoError
    <3> QED
      BY <2>1, <3>2, <3>3 DEF ErrInv, ErrIsFirstFailure
  <2>2. CASE pc' # "detach"
    BY <1>3, <1>4, <1>5, <2>2 DEF skel_alloc, skel_prep_map_data, Goto, loader
  <2> QED
    BY <2>1, <2>2
<1>6. CASE skel_map_create \/ skel_map_update_elem \/ LoadLoader
  BY <1>2, <1>3, <1>6 DEF skel_map_create, skel_map_update_elem, LoadLoader, Goto
<1>7. CASE RunLoader
  <2>1. pc = "run" /\ pc' = "out" /\ err' = 0 /\ UNCHANGED <<failed, errstr>>
    BY <1>7 DEF RunLoader, Goto
  <2>2. err' = 0 /\ failed' = 0 /\ errstr' = "none"
    BY <2>1 DEF ErrInv
  <2>3. err' = -failed' /\ ~(err' < 0)
    BY <2>2, NoError
  <2> QED
    BY <2>1, <2>2, <2>3 DEF ErrInv, ErrIsFirstFailure
<1>8. CASE RunLoaderFails
  <2>1. PICK e \in Errors, retval \in {0} \cup {-x : x \in Errors} :
          retval \in {0, -e} /\ err' = RunFails(e, retval) /\ failed' = e
    BY <1>8 DEF RunLoaderFails
  <2>2. -e < 0 /\ ~(0 < 0) /\ set_err(e) = -e
    BY ErrorCodes
  <2>3. err' = -e
    BY <2>1, <2>2 DEF RunFails
  <2> QED
    BY <1>1, <1>8, <2>1, <2>3 DEF RunLoaderFails, Goto
<1>9. CASE OutMap \/ OutProg \/ Finalize \/ Attach
  <2>1. pc \in Returning /\ pc' \in Returning /\ UNCHANGED <<err, failed, errstr>>
    BY <1>9 DEF OutMap, OutProg, Finalize, Attach, Goto, loader, Returning
  <2> QED
    BY <2>1 DEF ErrInv, ErrIsFirstFailure, Returning
<1>10. CASE Detach \/ CloseProg \/ FreeData \/ CloseMap
  BY <1>4, <1>10 DEF Detach, CloseProg, FreeData, CloseMap, Goto
<1>11. CASE OtherOpens \/ OtherCloses \/ UNCHANGED vars
  <2>1. UNCHANGED <<pc, err, failed, errstr>>
    BY <1>11 DEF OtherOpens, OtherCloses, vars, loader
  <2> QED
    BY <2>1 DEF ErrInv, ErrIsFirstFailure
<1> QED
  BY <1>5, <1>6, <1>7, <1>8, <1>9, <1>10, <1>11 DEF Next, bpf_load_and_run

(***************************************************************************)
(* The loader program is told on allocation where the initial values are.  *)
(***************************************************************************)
LEMMA FlagsStep == TypeOK /\ FlagsInv /\ [Next]_vars => FlagsInv'
<1> SUFFICES ASSUME TypeOK, FlagsInv, [Next]_vars
             PROVE  FlagsInv'
  OBVIOUS
<1>1. CASE skel_alloc
  BY <1>1 DEF TypeOK, FlagsInv, skel_alloc, Goto
<1>2. CASE /\ pc \notin {"open", "gone"} \/ pc' = pc
           /\ UNCHANGED <<kernel, flags>>
  BY <1>2 DEF FlagsInv
<1>3. CASE skel_prep_map_data \/ Finalize \/ Attach
  BY <1>2, <1>3 DEF skel_prep_map_data, Finalize, Attach
<1>4. CASE skel_map_create \/ skel_map_update_elem \/ LoadLoader
  BY <1>2, <1>4 DEF skel_map_create, skel_map_update_elem, LoadLoader, StepFails, skel
<1>5. CASE RunLoader \/ RunLoaderFails \/ OutMap \/ OutProg
  BY <1>2, <1>5 DEF RunLoader, RunLoaderFails, OutMap, OutProg, skel
<1>6. CASE Detach \/ CloseProg \/ FreeData \/ CloseMap
  BY <1>2, <1>6 DEF Detach, CloseProg, FreeData, CloseMap, skel
<1>7. CASE OtherOpens \/ OtherCloses \/ UNCHANGED vars
  BY <1>2, <1>7 DEF OtherOpens, OtherCloses, vars, skel
<1> QED
  BY <1>1, <1>3, <1>4, <1>5, <1>6, <1>7 DEF Next, bpf_load_and_run

-----------------------------------------------------------------------------
(* Initial values *)

SameData(m) ==
  /\ mem'[m] = mem[m] /\ data'[m] = data[m]
  /\ desc'[m].initial_value = desc[m].initial_value

(***************************************************************************)
(* What holds of a map's initial value holds as long as nothing about it   *)
(* changes.                                                                *)
(***************************************************************************)
LEMMA DataKept ==
  ASSUME NEW m \in Maps, SameData(m), kernel' = kernel
  PROVE  /\ Unprepared(m)' <=> Unprepared(m)
         /\ Buffered(m)' <=> Buffered(m)
         /\ Handed(m)' <=> Handed(m)
         /\ Held(m)' <=> Held(m)
         /\ Released(m)' <=> Released(m)
BY DEF SameData, Unprepared, Buffered, Handed, Lost, Held, Released

(***************************************************************************)
(* A step that is about map i touches no other map's initial value.        *)
(***************************************************************************)
LEMMA OthersKept ==
  ASSUME TypeOK, NEW x, NEW y, NEW z,
         mem' = [mem EXCEPT ![i] = x], data' = [data EXCEPT ![i] = y],
         desc' = [desc EXCEPT ![i] = WithInit(desc[i], z)]
  PROVE  /\ \A m \in Maps : m # i => SameData(m)
         /\ mem'[i] = x /\ data'[i] = y /\ desc'[i].initial_value = z
BY DEF TypeOK, WithInit, SameData

(***************************************************************************)
(* Preparing the buffers, up to the first that cannot be had.              *)
(***************************************************************************)
LEMMA PrepareData ==
  ASSUME TypeOK, DataInv, skel_prep_map_data
  PROVE  DataInv'
<1>1. pc = "prep" /\ kernel' = kernel /\ i \in Maps
  BY DEF skel_prep_map_data, TypeOK
<1>2. \A m \in Maps : IF m < i THEN Buffered(m) ELSE Unprepared(m)
  BY <1>1 DEF DataInv
<1>3. CASE /\ mem' = [mem EXCEPT ![i] = "live"]
           /\ data' = [data EXCEPT ![i] = "buffer"]
           /\ desc' = [desc EXCEPT ![i] = WithInit(@, "buffer")]
           /\ pc' = (IF i = NMaps THEN "create" ELSE "prep")
           /\ i' = (IF i = NMaps THEN 1 ELSE i + 1)
  <2>1. \A m \in Maps : IF m = i THEN Buffered(m)' ELSE SameData(m)
    <3>1. /\ \A m \in Maps : m # i => SameData(m)
          /\ mem'[i] = "live" /\ data'[i] = "buffer" /\ desc'[i].initial_value = "buffer"
      BY <1>3, OthersKept
    <3> QED
      BY <3>1 DEF Buffered
  <2>2. \A m \in Maps : /\ m < i => Buffered(m)'
                        /\ m > i => Unprepared(m)'
    BY <1>1, <1>2, <2>1, DataKept, MapNumbers
  <2>3. \A m \in Maps : IF m <= i THEN Buffered(m)' ELSE Unprepared(m)'
    BY <1>1, <2>1, <2>2, MapNumbers
  <2>4. CASE i = NMaps
    <3>1. pc' = "create" /\ \A m \in Maps : Buffered(m)'
      BY <1>3, <2>3, <2>4, MapNumbers
    <3> QED
      BY <3>1 DEF DataInv
  <2>5. CASE i # NMaps
    <3>1. pc' = "prep" /\ i' = i + 1
      BY <1>3, <2>5
    <3>2. \A m \in Maps : m < i + 1 <=> m <= i
      BY <1>1, MapNumbers
    <3>3. pc' = "prep" /\ \A m \in Maps : IF m < i' THEN Buffered(m)' ELSE Unprepared(m)'
      BY <2>3, <3>1, <3>2
    <3> QED
      BY <3>3 DEF DataInv
  <2> QED
    BY <2>4, <2>5
<1>4. CASE pc' = "detach" /\ UNCHANGED <<mem, data, desc>>
  <2>1. \A m \in Maps : Held(m)'
    BY <1>1, <1>2, <1>4, DataKept DEF SameData, Held
  <2> QED
    BY <1>4, <2>1 DEF DataInv
<1> QED
  BY <1>3, <1>4 DEF skel_prep_map_data, Goto

(***************************************************************************)
(* The skeleton starts with nothing prepared; while bpf_load_and_run runs  *)
(* the buffers stay where they are.                                        *)
(***************************************************************************)
LEMMA LoaderData ==
  ASSUME TypeOK, DataInv, skel_alloc \/ bpf_load_and_run
  PROVE  DataInv'
<1>1. (\A m \in Maps : SameData(m)) /\ kernel' = kernel
  <2>1. CASE RunLoader
    <3>1. PICK fds \in [1 .. NMaps + 1 -> Free] :
            desc' = [k \in Maps |-> [map_fd |-> fds[k], initial_value |-> desc[k].initial_value]]
      BY <2>1 DEF RunLoader
    <3>2. \A m \in Maps : desc'[m].initial_value = desc[m].initial_value
      BY <3>1
    <3> QED
      BY <2>1, <3>2 DEF RunLoader, SameData
  <2>2. CASE skel_alloc
    BY <2>2 DEF skel_alloc, SameData
  <2>3. CASE skel_map_create \/ skel_map_update_elem \/ LoadLoader
    BY <2>3 DEF skel_map_create, skel_map_update_elem, LoadLoader, StepFails, SameData, skel
  <2>4. CASE RunLoaderFails \/ OutMap \/ OutProg
    BY <2>4 DEF RunLoaderFails, OutMap, OutProg, SameData, skel
  <2> QED
    BY <2>1, <2>2, <2>3, <2>4 DEF bpf_load_and_run
<1>2. CASE skel_alloc
  <2>1. pc = "open" /\ pc' \in {"prep", "gone"} /\ i' = i
    BY <1>2 DEF skel_alloc, Goto
  <2>2. \A m \in Maps : Unprepared(m)' /\ Released(m)' /\ ~(m < i')
    BY <1>1, <2>1, DataKept, MapNumbers DEF DataInv, Released, Unprepared
  <2> QED
    BY <2>1, <2>2 DEF DataInv
<1>3. CASE OutProg
  <2>1. pc = "out_prog" /\ pc' \in {"detach", "finalize"} /\ i' = 1
    BY <1>3 DEF OutProg, Goto
  <2>2. \A m \in Maps : Buffered(m)' /\ Held(m)' /\ ~(m < i')
    BY <1>1, <2>1, DataKept, MapNumbers DEF DataInv, Held
  <2> QED
    BY <2>1, <2>2 DEF DataInv
<1>4. CASE \/ skel_map_create \/ skel_map_update_elem \/ LoadLoader
           \/ RunLoader \/ RunLoaderFails \/ OutMap
  <2>1. /\ pc \in {"create", "update", "load", "run", "out"}
        /\ pc' \in {"update", "load", "run", "out", "out_prog"}
    BY <1>4 DEF skel_map_create, skel_map_update_elem, LoadLoader, RunLoader, RunLoaderFails, OutMap,
                StepFails, Goto
  <2>2. \A m \in Maps : Buffered(m)'
    BY <1>1, <2>1, DataKept DEF DataInv
  <2> QED
    BY <2>1, <2>2 DEF DataInv
<1> QED
  BY <1>2, <1>3, <1>4 DEF bpf_load_and_run

(***************************************************************************)
(* Handing an initial value to its map: the kernel frees the buffer and    *)
(* marks the address; in user space the map takes the buffer's place, or   *)
(* the buffer's address is lost.                                           *)
(***************************************************************************)
LEMMA FinalizeData ==
  ASSUME TypeOK, DataInv, Finalize
  PROVE  DataInv'
<1>1. pc = "finalize" /\ kernel' = kernel /\ i \in Maps
  BY DEF Finalize, TypeOK
<1>2. \A m \in Maps : IF m < i THEN Handed(m) ELSE Buffered(m)
  BY <1>1 DEF DataInv
<1>3. mem[i] = "live" /\ desc[i].initial_value = "buffer"
  BY <1>1, <1>2, MapNumbers DEF Buffered
<1>4. PICK r \in skel_finalize_map_data(desc[i].initial_value, mem[i], desc[i].map_fd) :
        /\ mem' = [mem EXCEPT ![i] = r.mem]
        /\ desc' = [desc EXCEPT ![i] = WithInit(@, r.init)]
        /\ data' = [data EXCEPT ![i] = r.ret]
        /\ pc' = CASE r.ret = "null" -> "detach"
                   [] r.ret # "null" /\ i = NMaps -> "attach"
                   [] OTHER -> "finalize"
        /\ i' = IF r.ret = "null" \/ i = NMaps THEN 1 ELSE i + 1
  BY DEF Finalize, Goto
<1>5. /\ \A m \in Maps : m # i => SameData(m)
      /\ mem'[i] = r.mem /\ data'[i] = r.ret /\ desc'[i].initial_value = r.init
  BY <1>4, OthersKept
<1>6. /\ kernel => r.mem = "freed" /\ r.init = "ones"
      /\ ~kernel => \/ r.mem = "mapped" /\ r.init = "buffer" /\ r.ret = "buffer"
                    \/ r.mem = "live" /\ r.init = "buffer" /\ r.ret = "null"
  BY <1>3 DEF skel_finalize_map_data, finalize_kernel, finalize_user, Kvfree
<1>7. \A m \in Maps : m = i => Held(m)' /\ (r.ret # "null" => Handed(m)')
  BY <1>1, <1>5, <1>6 DEF Held, Handed, Lost
<1>8. \A m \in Maps : /\ m < i => Handed(m)'
                      /\ m > i => Buffered(m)'
  BY <1>1, <1>2, <1>5, DataKept, MapNumbers
<1>9. CASE r.ret = "null"
  <2>1. pc' = "detach"
    BY <1>4, <1>9
  <2>2. \A m \in Maps : Handed(m)' \/ Buffered(m)' => Held(m)'
    BY DEF Held
  <2>3. \A m \in Maps : Held(m)'
    BY <1>1, <1>7, <1>8, <2>2, MapNumbers
  <2> QED
    BY <2>1, <2>3 DEF DataInv
<1>10. CASE r.ret # "null" /\ i = NMaps
  <2>1. pc' = "attach"
    BY <1>4, <1>10
  <2>2. \A m \in Maps : Handed(m)'
    BY <1>1, <1>7, <1>8, <1>10, MapNumbers
  <2> QED
    BY <2>1, <2>2 DEF DataInv
<1>11. CASE r.ret # "null" /\ i # NMaps
  <2>1. pc' = "finalize" /\ i' = i + 1
    BY <1>4, <1>11
  <2>2. \A m \in Maps : m < i + 1 <=> m < i \/ m = i
    BY <1>1, MapNumbers
  <2>3. \A m \in Maps : m < i \/ m = i \/ m > i
    BY <1>1, MapNumbers
  <2>4. \A m \in Maps : IF m < i' THEN Handed(m)' ELSE Buffered(m)'
    BY <1>7, <1>8, <1>11, <2>1, <2>2, <2>3
  <2> QED
    BY <2>1, <2>4 DEF DataInv
<1> QED
  BY <1>9, <1>10, <1>11

(***************************************************************************)
(* Freeing what the skeleton points to releases each value in the state it *)
(* is found in, and frees nothing twice.                                   *)
(***************************************************************************)
LEMMA FreeReleases ==
  ASSUME NEW m \in Maps, Held(m), kernel \in BOOLEAN, kernel' = kernel,
         data'[m] = data[m], desc'[m].initial_value = desc[m].initial_value,
         mem'[m] = skel_free_map_data(data[m], desc[m].initial_value, mem[m])
  PROVE  Released(m)'
BY DEF Held, Released, Unprepared, Buffered, Handed, Lost, skel_free_map_data, Kvfree, Munmap

(***************************************************************************)
(* Attaching and destroying: map after map is released.                    *)
(***************************************************************************)
LEMMA DestroyData ==
  ASSUME TypeOK, MapInv, DataInv, Attach \/ Detach \/ CloseProg \/ FreeData \/ CloseMap
  PROVE  DataInv'
<1>1. CASE Attach \/ Detach \/ CloseProg
  <2>1. (\A m \in Maps : SameData(m)) /\ kernel' = kernel /\ i' = i
    BY <1>1 DEF Attach, Detach, CloseProg, SameData, skel
  <2>2. \/ pc = "attach" /\ pc' = "detach"
        \/ pc = "detach" /\ pc' = "close_prog"
        \/ pc = "close_prog" /\ pc' = "free_data" /\ i = 1
    BY <1>1 DEF Attach, Detach, CloseProg, Goto, MapInv
  <2>3. \A m \in Maps : Held(m)' /\ (i = 1 => ~(m < i'))
    BY <2>1, <2>2, DataKept, MapNumbers DEF DataInv, Held
  <2> QED
    BY <2>2, <2>3 DEF DataInv
<1>2. CASE FreeData
  <2>1. pc = "free_data" /\ pc' = "close_map" /\ i' = i /\ kernel' = kernel /\ i \in Maps
    BY <1>2 DEF FreeData, Goto, TypeOK
  <2>2. \A m \in Maps : IF m < i THEN Released(m) ELSE Held(m)
    BY <2>1 DEF DataInv
  <2>3. /\ \A m \in Maps : m # i => SameData(m)
        /\ \A m \in Maps : m = i => mem'[m] = skel_free_map_data(data[m], desc[m].initial_value, mem[m])
        /\ data' = data /\ desc' = desc
    BY <1>2 DEF FreeData, SameData, TypeOK
  <2>4. ASSUME NEW m \in Maps, m = i
        PROVE  Released(m)'
    <3>1. Held(m)
      BY <2>1, <2>2, <2>4, MapNumbers
    <3> QED
      BY <2>1, <2>3, <2>4, <3>1, FreeReleases DEF TypeOK
  <2>5. \A m \in Maps : /\ m < i => Released(m)'
                        /\ m > i => Held(m)'
    BY <2>1, <2>2, <2>3, DataKept, MapNumbers
  <2>6. \A m \in Maps : IF m <= i' THEN Released(m)' ELSE Held(m)'
    BY <2>1, <2>4, <2>5, MapNumbers
  <2> QED
    BY <2>1, <2>6 DEF DataInv
<1>3. CASE CloseMap
  <2>1. /\ pc = "close_map" /\ i \in Maps
        /\ \/ pc' = "gone" /\ i = NMaps
           \/ pc' = "free_data" /\ i' = i + 1
    BY <1>3 DEF CloseMap, Goto, TypeOK
  <2>2. (\A m \in Maps : SameData(m)) /\ kernel' = kernel
    BY <1>3 DEF CloseMap, SameData, skel
  <2>3. \A m \in Maps : IF m <= i THEN Released(m)' ELSE Held(m)'
    BY <2>1, <2>2, DataKept DEF DataInv
  <2>4. CASE pc' = "gone" /\ i = NMaps
    BY <2>3, <2>4, MapNumbers DEF DataInv
  <2>5. CASE pc' = "free_data" /\ i' = i + 1
    <3>1. \A m \in Maps : m < i + 1 <=> m <= i
      BY <2>1, MapNumbers
    <3> QED
      BY <2>3, <2>5, <3>1 DEF DataInv
  <2> QED
    BY <2>1, <2>4, <2>5
<1> QED
  BY <1>1, <1>2, <1>3

(***************************************************************************)
(* The initial values, at every step.                                      *)
(***************************************************************************)
LEMMA DataStep == TypeOK /\ FdInv /\ DataInv /\ [Next]_vars => DataInv'
<1> SUFFICES ASSUME TypeOK, FdInv, DataInv, [Next]_vars
             PROVE  DataInv'
  OBVIOUS
<1>1. CASE OtherOpens \/ OtherCloses \/ UNCHANGED vars
  <2>1. UNCHANGED <<kernel, pc, i, mem, data, desc>>
    BY <1>1 DEF OtherOpens, OtherCloses, vars, skel
  <2>2. \A m \in Maps : SameData(m)
    BY <2>1 DEF SameData
  <2> QED
    BY <2>1, <2>2, DataKept DEF DataInv
<1>2. MapInv
  BY DEF FdInv
<1> QED
  BY <1>1, <1>2, PrepareData, LoaderData, FinalizeData, DestroyData DEF Next

-----------------------------------------------------------------------------
(* Theorems *)

(***************************************************************************)
(* A skeleton that has not been opened holds nothing.                      *)
(***************************************************************************)
LEMMA InitInv == Init => IndInv
<1> SUFFICES ASSUME Init
             PROVE  IndInv
  OBVIOUS
<1>1. TypeOK
  BY FdFacts DEF Init, TypeOK, Results, MapDesc, Flags, Errstr
<1>2. LoaderInv /\ ProgInv /\ LinkInv
  BY DEF Init, LoaderInv, ProgInv, LinkInv, Closing
<1>3. MapInv
  BY DEF Init, MapInv, Remains
<1>4. ErrInv /\ FlagsInv
  BY DEF Init, ErrInv, ErrIsFirstFailure, Returning, FlagsInv
<1>5. DataInv
  BY DEF Init, DataInv, Unprepared
<1> QED
  BY <1>1, <1>2, <1>3, <1>4, <1>5 DEF IndInv, FdInv

(***************************************************************************)
(* The inductive invariant holds of every reachable state.                 *)
(***************************************************************************)
LEMMA Invariant == Spec => []IndInv
<1>1. IndInv /\ [Next]_vars => IndInv'
  BY TypeStep, FdStep, ErrStep, DataStep, FlagsStep DEF IndInv
<1> QED
  BY <1>1, InitInv, PTL DEF Spec

(***************************************************************************)
(* Type correctness of the skeleton and of bpf_load_and_run.               *)
(***************************************************************************)
THEOREM TypeCorrect == Spec => []TypeOK
<1>1. IndInv => TypeOK
  BY DEF IndInv
<1> QED
  BY <1>1, Invariant, PTL

(***************************************************************************)
(* No descriptor leaks, whichever call of bpf_load_and_run or of the       *)
(* skeleton fails: those of the loader are closed when it returns, those   *)
(* of the object with the skeleton, but for one that came out as 0.        *)
(***************************************************************************)
THEOREM NothingLeaks == Spec => []NoFdLeak
<1>1. IndInv => NoFdLeak
  <2> SUFFICES ASSUME IndInv
               PROVE  NoFdLeak
    OBVIOUS
  <2>1. pc \in {"finalize", "attach", "detach", "gone"} => \A fd \in Fds : owner[fd] \notin Loaders
    BY DEF IndInv, FdInv, LoaderInv, Loaders
  <2>2. ASSUME pc = "gone", NEW fd \in Fds, owner[fd] \in Objects
        PROVE  fd = 0
    <3>1. CASE owner[fd] = "map"
      BY <2>2, <3>1 DEF IndInv, FdInv, MapInv, Remains
    <3>2. CASE owner[fd] = "prog"
      BY <2>2, <3>2 DEF IndInv, FdInv, ProgInv, Closing
    <3>3. CASE owner[fd] = "link"
      BY <2>2, <3>3, FdFacts DEF IndInv, TypeOK, FdInv, LinkInv
    <3> QED
      BY <2>2, <3>1, <3>2, <3>3 DEF Objects
  <2> QED
    BY <2>1, <2>2 DEF NoFdLeak
<1> QED
  BY <1>1, Invariant, PTL

(***************************************************************************)
(* When skel_finalize_map_data is called, the descriptor it is given is    *)
(* that of an open map: bpf_load_and_run reports success only if the       *)
(* loader program has made the maps.                                       *)
(***************************************************************************)
THEOREM FinalizeGetsMap == Spec => []FinalizeFdValid
<1>1. IndInv => FinalizeFdValid
  BY FdFacts DEF IndInv, TypeOK, FdInv, ProgInv, MapInv, Remains, FinalizeFdValid
<1> QED
  BY <1>1, Invariant, PTL

(***************************************************************************)
(* What bpf_load_and_run returns is the error of the step that failed, by  *)
(* either way of reporting one and whatever its two closes do to errno,    *)
(* and errstr is set if and only if a step failed.                         *)
(***************************************************************************)
THEOREM ErrorReported == Spec => []ErrIsFirstFailure
<1>1. IndInv => ErrIsFirstFailure
  BY DEF IndInv, ErrInv
<1> QED
  BY <1>1, Invariant, PTL

(***************************************************************************)
(* The loader program finds the initial values in their buffers and is     *)
(* told where; skel_free_map_data and skel_finalize_map_data free nothing  *)
(* but buffers in use; a pointer into a map is held only while it is open. *)
(***************************************************************************)
THEOREM DataIsSound == Spec => []DataSound
<1>1. IndInv => DataSound
  <2> SUFFICES ASSUME IndInv
               PROVE  DataSound
    OBVIOUS
  <2>1. pc = "run" => /\ \A m \in Maps : desc[m].initial_value = "buffer" /\ mem[m] = "live"
                      /\ flags = "BPF_SKEL_KERNEL" <=> kernel
    BY DEF IndInv, DataInv, FlagsInv, Buffered
  <2>2. ASSUME NEW m \in Maps
        PROVE  mem[m] # "corrupt"
    <3>1. Unprepared(m) \/ Buffered(m) \/ Handed(m) \/ Held(m) \/ Released(m)
      BY DEF IndInv, TypeOK, DataInv
    <3> QED
      BY <3>1 DEF Unprepared, Buffered, Handed, Held, Released, Lost
  <2>3. pc \in {"finalize", "attach"} => \A m \in Maps : owner[desc[m].map_fd] = "map"
    BY FdFacts DEF IndInv, TypeOK, FdInv, ProgInv, MapInv, Remains
  <2> QED
    BY <2>1, <2>2, <2>3 DEF DataSound
<1> QED
  BY <1>1, Invariant, PTL

(***************************************************************************)
(* Every buffer is released with the skeleton, whatever has failed, but    *)
(* for one that could not be mapped in user space, the case in which       *)
(* skel_finalize_map_data returns NULL over its address.                   *)
(***************************************************************************)
THEOREM BuffersReleased == Spec => []MemReleased
<1>1. IndInv => MemReleased
  BY DEF IndInv, DataInv, Released, Lost, MemReleased
<1> QED
  BY <1>1, Invariant, PTL

(***************************************************************************)
(* bpf_load_and_run and destroying the skeleton close no descriptor of     *)
(* another thread: each one that is closed is the skeleton's own at that   *)
(* time, 0 is never taken for one, and none is closed twice.               *)
(***************************************************************************)
THEOREM OthersStayOpen == Spec => NeverClosesOthers
<1> DEFINE Step == \A fd \in Fds : owner[fd] = "other" /\ owner'[fd] # "other" => OtherCloses
<1>1. IndInv /\ [Next]_vars => [Step]_vars
  <2> SUFFICES ASSUME IndInv, Next, NEW fd \in Fds, owner[fd] = "other", ~OtherCloses
               PROVE  owner'[fd] = "other"
    OBVIOUS
  <2> USE DEF IndInv
  <2>1. ASSUME NEW g \in Fds, LowestFree(g), NEW w, owner' = [owner EXCEPT ![g] = w]
        PROVE  owner'[fd] = "other"
    BY <2>1, Opens
  <2>2. ASSUME NEW S, owner' = Closed(S), S \cap Fds \subseteq {g \in Fds : owner[g] # "other"}
        PROVE  owner'[fd] = "other"
    BY <2>2, Closes
  <2>3. CASE owner' = owner
    BY <2>3
  <2>4. CASE skel_alloc \/ skel_prep_map_data \/ Finalize \/ FreeData \/ RunLoaderFails
    BY <2>3, <2>4 DEF skel_alloc, skel_prep_map_data, Finalize, FreeData, RunLoaderFails
  <2>5. CASE skel_map_create \/ skel_map_update_elem \/ LoadLoader \/ Attach \/ OtherOpens
    BY <2>1, <2>3, <2>5 DEF skel_map_create, skel_map_update_elem, LoadLoader, Attach, OtherOpens, StepFails
  <2>6. CASE RunLoader
    <3>1. PICK fds \in [1 .. NMaps + 1 -> Free] :
            owner' = [g \in Fds |-> CASE g \in {fds[k] : k \in Maps} -> "map"
                                      [] g = fds[NMaps + 1] -> "prog"
                                      [] OTHER -> owner[g]]
      BY <2>6 DEF RunLoader
    <3>2. (\A k \in Maps : fds[k] # fd) /\ fds[NMaps + 1] # fd
      BY NMapsAssumption DEF Maps, Free
    <3> QED
      BY <3>1, <3>2
  <2>7. CASE OutMap \/ OutProg
    <3>1. OutMap => \A g \in out_closes(map_fd) \cap Fds : owner[g] # "other"
      BY DEF OutMap, out_closes, FdInv, LoaderInv
    <3>2. OutProg => \A g \in out_closes(prog_fd) \cap Fds : owner[g] # "other"
      BY DEF OutProg, out_closes, FdInv, LoaderInv
    <3> QED
      BY <2>2, <2>7, <3>1, <3>2 DEF OutMap, OutProg
  <2>8. CASE Detach
    BY <2>2, <2>8 DEF Detach, closenz, FdInv, LinkInv
  <2>9. CASE CloseProg
    BY <2>2, <2>9 DEF CloseProg, closenz, FdInv, ProgInv, Closing
  <2>10. CASE CloseMap
    <3>1. prog = 0 \/ prog > 0
      BY FdFacts DEF TypeOK
    <3>2. i \in Maps /\ Remains(i) /\ pc = "close_map"
      BY <2>10, MapNumbers DEF TypeOK, Remains, CloseMap
    <3>3. desc[i].map_fd > 0 => owner[desc[i].map_fd] = "map"
      BY <3>1, <3>2, FdFacts DEF FdInv, MapInv
    <3> QED
      BY <2>2, <2>10, <3>3 DEF CloseMap, closenz
  <2> QED
    BY <2>4, <2>5, <2>6, <2>7, <2>8, <2>9, <2>10 DEF Next, bpf_load_and_run
<1> QED
  BY <1>1, Invariant, PTL DEF Spec, NeverClosesOthers

-----------------------------------------------------------------------------
(* Crc *)

(***************************************************************************)
(* The inductive invariant.  PointerInv: where the pointer is once tmp     *)
(* bytes of the field have been read.  An array is read forwards.  An      *)
(* integer is read backwards, and crc32_update takes one of 8 bytes in a   *)
(* single slice, after which its pointer is 4 before the field.            *)
(***************************************************************************)
Backwards == data_size < 8 \/ (data_size = 8 /\ in.alg = "crc16")

PointerInv ==
  /\ at = "slices" => /\ in.alg = "crc32"
                      /\ data_size < 8 => tmp = 0 /\ current = 0
                      /\ data_size = 8 => tmp \in {0, 8}
                      /\ data_size > 8 => current = tmp
  /\ at = "bytes" => /\ Backwards => current = data_size - 1 - tmp
                     /\ data_size = 8 /\ ~Backwards => tmp = 8
                     /\ data_size > 8 => current = tmp

CrcInv ==
  /\ in \in Inputs
  /\ fld \in Nat \ {0}
  /\ at \in {"call", "slices", "bytes", "done"}
  /\ at \in {"slices", "bytes"} => fld <= Len(in.msg) /\ tmp \in 0 .. data_size
  /\ PointerInv

(***************************************************************************)
(* A field is a sequence of bytes.                                         *)
(***************************************************************************)
LEMMA FieldFacts ==
  ASSUME in \in Inputs, fld \in Nat \ {0}, fld <= Len(in.msg)
  PROVE  Field \in Seq(Byte) /\ data_size \in Nat
<1>1. in.msg \in Seq(Seq(Byte))
  BY InputsAssumption
<1>2. Field \in Seq(Byte)
  BY <1>1 DEF Field
<1> QED
  BY <1>2 DEF data_size

(***************************************************************************)
(* Every step of either function moves the pointer as far as it has read.  *)
(***************************************************************************)
LEMMA CrcStep == CrcInv /\ [CrcNext]_crcvars => CrcInv'
<1> SUFFICES ASSUME CrcInv, [CrcNext]_crcvars PROVE CrcInv'
  OBVIOUS
<1>0. in.alg \in {"crc16", "crc32"} /\ in.msg \in Seq(Seq(Byte)) /\ Len(in.msg) \in Nat
  BY InputsAssumption DEF CrcInv
<1>1. ASSUME in' = in, fld' = fld
      PROVE  data_size' = data_size /\ Backwards' = Backwards
  BY <1>1 DEF data_size, Field, Backwards
<1>2. fld <= Len(in.msg) => data_size \in Nat
  BY FieldFacts DEF CrcInv
<1>3. CASE Crc16Call
  BY <1>0, <1>1, <1>2, <1>3 DEF Crc16Call, CrcInv, PointerInv, Backwards
<1>4. CASE Crc16Byte
  BY <1>0, <1>1, <1>2, <1>4 DEF Crc16Byte, CrcInv, PointerInv, Backwards
<1>5. CASE Crc32Call
  BY <1>0, <1>1, <1>2, <1>5 DEF Crc32Call, CrcInv, PointerInv, Backwards
<1>6. CASE Crc32Slice
  BY <1>0, <1>1, <1>2, <1>6 DEF Crc32Slice, CrcInv, PointerInv, FirstAt, NextAt, SliceBytes
<1>7. CASE Crc32Tail
  BY <1>0, <1>1, <1>2, <1>7 DEF Crc32Tail, CrcInv, PointerInv, Backwards, TailAt
<1>8. CASE Crc32Byte
  BY <1>0, <1>1, <1>2, <1>8 DEF Crc32Byte, CrcInv, PointerInv, Backwards
<1>9. CASE CrcReturn
  BY <1>9 DEF CrcReturn, CrcInv, PointerInv
<1>10. CASE CrcFinalize
  BY <1>10 DEF CrcFinalize, CrcInv, PointerInv
<1>11. CASE UNCHANGED crcvars
  BY <1>1, <1>11 DEF crcvars, CrcInv, PointerInv
<1> QED
  BY <1>3, <1>4, <1>5, <1>6, <1>7, <1>8, <1>9, <1>10, <1>11 DEF CrcNext

(***************************************************************************)
(* The pointer is where CrcInv says for any fields.                        *)
(***************************************************************************)
LEMMA CrcInvariant == CrcSpec => []CrcInv
<1>1. CrcInit => CrcInv
  BY DEF CrcInit, CrcInv, PointerInv
<1> QED
  BY <1>1, CrcStep, PTL DEF CrcSpec

(***************************************************************************)
(* crc16_update and crc32_update read no byte outside of the field they    *)
(* were given, whatever its size.                                          *)
(***************************************************************************)
THEOREM NoReadOutside == CrcSpec => []ReadsInBounds
<1>1. CrcInv => ReadsInBounds
  <2> SUFFICES ASSUME CrcInv, NextReads # {} PROVE NextReads \subseteq 0 .. data_size - 1
    BY DEF ReadsInBounds
  <2>1. CASE at = "slices" /\ data_size - tmp >= 8
    <3>1. data_size \in Nat /\ tmp \in 0 .. data_size
      BY <2>1, FieldFacts DEF CrcInv
    <3> DEFINE at1 == FirstAt(data_size, current)
               at2 == NextAt(data_size, at1)
    <3>2. at1 \in Nat /\ at2 \in Nat /\ at1 + 3 <= data_size - 1 /\ at2 + 3 <= data_size - 1
      BY <2>1, <3>1 DEF CrcInv, PointerInv, FirstAt, NextAt
    <3>3. NextReads = (at1 .. at1 + 3) \cup (at2 .. at2 + 3)
      BY <2>1 DEF NextReads
    <3> HIDE DEF at1, at2
    <3> QED
      BY <3>1, <3>2, <3>3
  <2>2. CASE at = "bytes" /\ tmp < data_size
    <3>1. data_size \in Nat /\ tmp \in 0 .. data_size /\ in.alg \in {"crc16", "crc32"}
      BY <2>2, FieldFacts, InputsAssumption DEF CrcInv
    <3>2. current \in 0 .. data_size - 1
      BY <2>2, <3>1 DEF CrcInv, PointerInv, Backwards
    <3>3. NextReads = {current}
      BY <2>2 DEF NextReads
    <3> QED
      BY <3>2, <3>3
  <2> QED
    BY <2>1, <2>2 DEF NextReads
<1> QED
  BY <1>1, CrcInvariant, PTL

(***************************************************************************)
(* What the next read takes in, against the bytes of the field in the      *)
(* order they have on the wire.                                            *)
(***************************************************************************)
WireWord(n) == WordAt([k \in 1 .. 4 |-> Field[n + k]])

InWireOrder ==
  /\ at = "slices" /\ data_size - tmp >= 8 =>
       LET at1 == FirstAt(data_size, current)
           at2 == NextAt(data_size, at1)
       IN Dword(data_size, at1) = WireWord(tmp) /\ Dword(data_size, at2) = WireWord(tmp + 4)
  /\ at = "bytes" /\ tmp < data_size => ByteAt(current) = Field[tmp + 1]

(***************************************************************************)
(* A word of four bytes swapped is the word of the bytes the other way     *)
(* round.                                                                  *)
(***************************************************************************)
LEMMA SwappedWord ==
  ASSUME NEW a \in Byte, NEW b \in Byte, NEW c \in Byte, NEW d \in Byte
  PROVE  swab32(<<b + 256 * a, d + 256 * c>>) = <<c + 256 * d, a + 256 * b>>
<1>1. ASSUME NEW x \in Byte, NEW y \in Byte
      PROVE  swab16(x + 256 * y) = y + 256 * x
  <2>1. (x + 256 * y) % 256 = x /\ (x + 256 * y) \div 256 = y
    BY DEF Byte
  <2> QED
    BY <2>1 DEF swab16, Byte
<1> QED
  BY <1>1 DEF swab32

(***************************************************************************)
(* Whatever the size of the field, and in spite of the directions the      *)
(* pointers run in, both functions take the bytes in the order of the      *)
(* wire, one at a time or in words of four, none twice and none left out.  *)
(***************************************************************************)
THEOREM ReadsInWireOrder == CrcSpec => []InWireOrder
<1>1. CrcInv => InWireOrder
  <2> SUFFICES ASSUME CrcInv PROVE InWireOrder
    OBVIOUS
  <2>1. ASSUME at = "slices", data_size - tmp >= 8
        PROVE  /\ Dword(data_size, FirstAt(data_size, current)) = WireWord(tmp)
               /\ Dword(data_size, NextAt(data_size, FirstAt(data_size, current))) = WireWord(tmp + 4)
    <3>1. Field \in Seq(Byte) /\ data_size = Len(Field) /\ data_size \in Nat /\ tmp \in 0 .. data_size
      BY <2>1, FieldFacts DEF CrcInv, data_size
    <3>2. \A n \in 1 .. data_size : Field[n] \in Byte
      BY <3>1
    <3>3. CASE data_size > 8
      <4>1. Memory(Field) = Field
        BY <3>1, <3>3 DEF Memory
      <4>2. current = tmp
        BY <2>1, <3>3 DEF CrcInv, PointerInv
      <4>3. FirstAt(data_size, current) = tmp /\ NextAt(data_size, tmp) = tmp + 4
        BY <3>1, <3>3, <4>2 DEF FirstAt, NextAt
      <4>4. Dword(data_size, tmp) = u32At(tmp) /\ Dword(data_size, tmp + 4) = u32At(tmp + 4)
        <5>1. data_size # 8
          BY <3>1, <3>3
        <5> QED
          BY <5>1 DEF Dword
      <4> QED
        BY <4>1, <4>3, <4>4 DEF u32At, WireWord
    <3>4. CASE data_size = 8
      <4>1. Memory(Field) = [k \in 1 .. 8 |-> Field[9 - k]]
        BY <3>1, <3>4 DEF Memory
      <4>2. tmp = 0 /\ FirstAt(data_size, current) = 4 /\ NextAt(data_size, 4) = 0
        BY <2>1, <3>1, <3>4 DEF CrcInv, PointerInv, FirstAt, NextAt
      <4>3. /\ u32At(4) = <<Field[2] + 256 * Field[1], Field[4] + 256 * Field[3]>>
            /\ u32At(0) = <<Field[6] + 256 * Field[5], Field[8] + 256 * Field[7]>>
        BY <4>1 DEF u32At, WordAt
      <4>4. /\ WireWord(0) = <<Field[3] + 256 * Field[4], Field[1] + 256 * Field[2]>>
            /\ WireWord(4) = <<Field[7] + 256 * Field[8], Field[5] + 256 * Field[6]>>
        BY DEF WireWord, WordAt
      <4>5. \A n \in 1 .. 8 : Field[n] \in Byte
        BY <3>2, <3>4
      <4>6. swab32(u32At(4)) = WireWord(0) /\ swab32(u32At(0)) = WireWord(4)
        BY <4>3, <4>4, <4>5, SwappedWord
      <4>7. Dword(data_size, 4) = swab32(u32At(4)) /\ Dword(data_size, 0) = swab32(u32At(0))
        BY <3>4 DEF Dword
      <4> QED
        BY <4>2, <4>6, <4>7
    <3> QED
      BY <2>1, <3>1, <3>3, <3>4
  <2>2. ASSUME at = "bytes", tmp < data_size
        PROVE  ByteAt(current) = Field[tmp + 1]
    <3>1. Field \in Seq(Byte) /\ data_size = Len(Field) /\ data_size \in Nat /\ tmp \in 0 .. data_size
      BY <2>2, FieldFacts DEF CrcInv, data_size
    <3>2. CASE Backwards
      <4>1. current = data_size - 1 - tmp
        BY <2>2, <3>2 DEF CrcInv, PointerInv
      <4>2. Memory(Field) = [k \in 1 .. data_size |-> Field[data_size + 1 - k]]
        <5>1. data_size < 8 \/ data_size = 8
          BY <3>2 DEF Backwards
        <5>2. data_size <= 8
          BY <3>1, <5>1
        <5> QED
          BY <3>1, <5>2 DEF Memory
      <4>3. current + 1 \in 1 .. data_size /\ data_size + 1 - (current + 1) = tmp + 1
        BY <2>2, <3>1, <4>1
      <4> QED
        BY <4>2, <4>3 DEF ByteAt
    <3>3. CASE ~Backwards
      <4>1. data_size > 8
        BY <2>2, <3>1, <3>3 DEF CrcInv, PointerInv, Backwards
      <4>2. current = tmp /\ Memory(Field) = Field
        BY <2>2, <3>1, <4>1 DEF CrcInv, PointerInv, Memory
      <4> QED
        BY <4>2 DEF ByteAt
    <3> QED
      BY <3>2, <3>3
  <2> QED
    BY <2>1, <2>2 DEF InWireOrder
<1> QED
  BY <1>1, CrcInvariant, PTL
=============================================================================
