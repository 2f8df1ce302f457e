-------------------------- MODULE Downloads_proofs --------------------------
(***************************************************************************)
(* Proofs about Downloads, for any set of download calls, any converters   *)
(* and any retention.                                                      *)
(***************************************************************************)
EXTENDS Downloads, TLAPS

Busy == {"sweep", "file", "manifest"}

\* A call that runs without an await is the only one.
MutexInv == \A d, e \in Ids : pc[d] \in Busy /\ pc[e] \in Busy => d = e

\* What there is of a download, by the place its call is at.
PlaceInv ==
    \A d \in Ids :
        /\ d \notin there => Listed(d) = {}
        /\ pc[d] \in {"idle", "sweep", "fetch"} => d \notin there
        /\ pc[d] = "file" => d \in there /\ disk[d].file = "none" /\ disk[d].manifest = "none"
        /\ pc[d] = "manifest" => d \in there /\ disk[d].file = "whole" /\ disk[d].manifest = "none"
        /\ d \in served => pc[d] = "done"

\* What is being removed has expired; of the file and of the manifest nothing
\* is left that the removal has not listed.
RemovalInv ==
    \/ removing = NoRemoval
    \/ LET e == removing.id
       IN  /\ e \in there /\ pc[e] = "done" /\ disk[e].expires < now
           /\ \A x \in {"file", "manifest"} : disk[e][x] # "none" => x \in removing.listed

\* A manifest vouches for its file until it expires.
VouchInv ==
    \A d \in Ids : pc[d] = "done" /\ disk[d].manifest = "whole" =>
        disk[d].file = "whole" \/ disk[d].expires < now

\* Without faults a finished download has both or neither.
PairInv ==
    ~storeFailed /\ crashes = 0 =>
        \A d \in Ids : pc[d] = "done" /\ removing.id # d /\ disk[d].manifest = "none" =>
            disk[d].file = "none"

\* What had expired when the removal began, and it has not looked at yet.
SweepInv ==
    /\ since <= now
    /\ (\E d \in Ids : pc[d] = "sweep") =>
          \A e \in Ids : disk[e].manifest = "whole" =>
              e \in todo \/ e = removing.id \/ disk[e].expires >= since

\* A converter is at work on what was served.
ConvertInv == \A k \in Converters : at[k] \in {"hash", "convert", "write"} => source[k] \in served

IInv ==
    /\ TypeOK /\ MutexInv /\ PlaceInv /\ RemovalInv /\ VouchInv /\ PairInv
    /\ SweepInv /\ ConvertInv /\ ServedUntilExpiry

-----------------------------------------------------------------------------
(* The steps of a call.                                                    *)

\* The entries of a directory, as the steps that look at all of them see them.
LEMMA ListedEntries ==
    ASSUME NEW e
    PROVE  /\ \A x \in Entries : x \in Listed(e) <=> disk[e][x] # "none"
           /\ Listed(e) = {} <=>
                disk[e].file = "none" /\ disk[e].manifest = "none" /\ disk[e].markdown = "none"
BY DEF Listed, Entries

LEMMA StartKeeps ==
    ASSUME IInv, NEW d \in Ids, Start(d)
    PROVE  IInv'
<1> USE DEF Start, Goto, IInv, convs
<1>1. TypeOK'
  BY DEF TypeOK
<1>2. MutexInv'
  BY DEF MutexInv, Alone, Busy, TypeOK
<1>3. PlaceInv'
  BY DEF PlaceInv, TypeOK, Listed
<1>4. RemovalInv' /\ VouchInv' /\ PairInv'
  BY DEF RemovalInv, VouchInv, PairInv, TypeOK
<1>5. SweepInv'
  <2>1. \A e \in Ids : disk[e].manifest = "whole" => e \in there
    BY ListedEntries DEF PlaceInv
  <2> QED
    BY <2>1 DEF SweepInv, TypeOK
<1>6. ConvertInv' /\ ServedUntilExpiry'
  BY DEF ConvertInv, ServedUntilExpiry
<1> QED
  BY <1>1, <1>2, <1>3, <1>4, <1>5, <1>6

LEMMA LookKeeps ==
    ASSUME IInv, NEW d \in Ids, NEW e \in Ids, Look(d, e)
    PROVE  IInv'
<1> USE DEF Look, IInv, convs
<1>1. TypeOK'
  BY DEF TypeOK, Listed, Entries, NoRemoval
<1>2. MutexInv' /\ ConvertInv' /\ ServedUntilExpiry'
  BY DEF MutexInv, ConvertInv, ServedUntilExpiry
<1>3. PlaceInv'
  BY DEF PlaceInv, Listed
<1>4. RemovalInv'
  <2>1. disk[e].manifest = "whole" => e \in there /\ pc[e] = "done"
    BY ListedEntries DEF PlaceInv, TypeOK
  <2> QED
    BY <2>1, ListedEntries DEF RemovalInv, Entries
<1>5. VouchInv'
  BY DEF VouchInv
<1>6. PairInv'
  BY IdsAssumption DEF PairInv, NoRemoval
<1>7. SweepInv'
  <2> SUFFICES ASSUME NEW c \in Ids, pc[c] = "sweep", NEW a \in Ids, disk[a].manifest = "whole"
               PROVE  a \in todo' \/ a = removing'.id \/ disk[a].expires >= since
    BY DEF SweepInv
  <2>1. a \in todo \/ disk[a].expires >= since
    BY IdsAssumption DEF SweepInv, NoRemoval
  <2>2. disk[a].expires \in 0 .. MaxTime + Retention /\ now \in 0 .. MaxTime /\ since \in 0 .. MaxTime
    BY DEF TypeOK
  <2>3. CASE a = e
    BY <2>1, <2>2, <2>3, TimeAssumption DEF SweepInv
  <2>4. CASE a # e
    BY <2>1, <2>4
  <2> QED
    BY <2>3, <2>4
<1> QED
  BY <1>1, <1>2, <1>3, <1>4, <1>5, <1>6, <1>7

\* An entry of the directory that is being removed.
LEMMA UnlinkKeeps ==
    ASSUME IInv, NEW d \in Ids, Unlink(d)
    PROVE  IInv'
<1> USE DEF IInv, convs
<1> DEFINE e == removing.id
<1>1. PICK x \in removing.listed :
        /\ disk' = [disk EXCEPT ![e][x] = "none"]
        /\ removing' = [removing EXCEPT !.listed = @ \ {x}]
  BY DEF Unlink
<1>2. /\ pc[d] = "sweep" /\ removing # NoRemoval
      /\ UNCHANGED <<now, there, pc, served, todo, since, convs, storeFailed, crashes>>
  BY DEF Unlink
<1>3. /\ e \in Ids /\ x \in Entries /\ e \in there /\ pc[e] = "done" /\ disk[e].expires < now
      /\ \A y \in {"file", "manifest"} : disk[e][y] # "none" => y \in removing.listed
  BY <1>2 DEF TypeOK, RemovalInv
<1>4. /\ removing'.id = e /\ removing'.listed = removing.listed \ {x}
      /\ removing' \in [id : Ids \cup {Nothing}, listed : SUBSET Entries]
  BY <1>1 DEF TypeOK
<1>5. /\ disk'[e].expires = disk[e].expires
      /\ \A y \in Entries : disk'[e][y] = IF y = x THEN "none" ELSE disk[e][y]
      /\ \A a \in Ids \ {e} : disk'[a] = disk[a]
      /\ disk' \in [Ids -> [file : {"none", "part", "whole"}, manifest : {"none", "part", "whole"},
                            markdown : {"none", "whole"}, expires : 0 .. MaxTime + Retention]]
  BY <1>1, <1>3 DEF TypeOK, Entries
<1>6. TypeOK'
  BY <1>2, <1>4, <1>5 DEF TypeOK
<1>7. MutexInv' /\ ConvertInv'
  BY <1>2 DEF MutexInv, ConvertInv
<1>8. PlaceInv'
  BY <1>2, <1>3, <1>5 DEF PlaceInv, Listed
<1>9. RemovalInv'
  BY <1>2, <1>3, <1>4, <1>5 DEF RemovalInv, Entries
<1>10. VouchInv' /\ PairInv'
  BY <1>2, <1>3, <1>4, <1>5 DEF VouchInv, PairInv, Entries
<1>11. SweepInv'
  BY <1>2, <1>3, <1>4, <1>5 DEF SweepInv, Entries
<1>12. ServedUntilExpiry'
  <2>1. disk[e].expires \in 0 .. MaxTime + Retention /\ now \in 0 .. MaxTime
    BY <1>3 DEF TypeOK
  <2> QED
    BY <1>2, <1>3, <1>5, <2>1, TimeAssumption DEF ServedUntilExpiry, TypeOK
<1> QED
  BY <1>6, <1>7, <1>8, <1>9, <1>10, <1>11, <1>12

LEMMA RemoveDirectoryKeeps ==
    ASSUME IInv, NEW d \in Ids, RemoveDirectory(d)
    PROVE  IInv'
<1> USE DEF RemoveDirectory, IInv, convs
<1> DEFINE e == removing.id
<1>1. /\ e \in Ids /\ e \in there /\ pc[e] = "done" /\ disk[e].expires < now
      /\ disk[e].file = "none" /\ disk[e].manifest = "none"
  BY DEF TypeOK, RemovalInv
<1>2. TypeOK'
  BY DEF TypeOK, NoRemoval
<1>3. MutexInv' /\ ConvertInv'
  BY DEF MutexInv, ConvertInv
<1>4. PlaceInv'
  BY <1>1 DEF PlaceInv, Listed
<1>5. RemovalInv' /\ VouchInv'
  BY DEF RemovalInv, VouchInv
<1>6. PairInv' /\ SweepInv'
  BY <1>1, IdsAssumption DEF PairInv, SweepInv, NoRemoval
<1>7. ServedUntilExpiry'
  BY <1>1 DEF ServedUntilExpiry, TypeOK
<1> QED
  BY <1>2, <1>3, <1>4, <1>5, <1>6, <1>7

LEMMA SweptKeeps ==
    ASSUME IInv, NEW d \in Ids, Swept(d) \/ FetchFails(d)
    PROVE  IInv'
<1> USE DEF Swept, FetchFails, Goto, IInv, convs
<1>1. TypeOK' /\ MutexInv'
  BY DEF TypeOK, MutexInv, Busy
<1>2. PlaceInv' /\ RemovalInv'
  BY DEF TypeOK, PlaceInv, RemovalInv, Listed
<1>3. VouchInv' /\ PairInv'
  BY ListedEntries DEF TypeOK, VouchInv, PairInv, PlaceInv
<1>4. SweepInv' /\ ConvertInv' /\ ServedUntilExpiry'
  BY DEF TypeOK, SweepInv, ConvertInv, ServedUntilExpiry
<1> QED
  BY <1>1, <1>2, <1>3, <1>4

LEMMA FetchedKeeps ==
    ASSUME IInv, NEW d \in Ids, Fetched(d)
    PROVE  IInv'
<1> USE DEF Fetched, Goto, IInv, convs
<1>1. TypeOK' /\ MutexInv'
  BY DEF TypeOK, MutexInv, Alone, Busy
<1>2. PlaceInv' /\ RemovalInv'
  BY ListedEntries DEF TypeOK, PlaceInv, RemovalInv, Listed
<1>3. VouchInv' /\ PairInv'
  BY DEF TypeOK, VouchInv, PairInv
<1>4. SweepInv' /\ ConvertInv' /\ ServedUntilExpiry'
  BY DEF TypeOK, SweepInv, ConvertInv, ServedUntilExpiry
<1> QED
  BY <1>1, <1>2, <1>3, <1>4

LEMMA WriteFileKeeps ==
    ASSUME IInv, NEW d \in Ids, WriteFile(d)
    PROVE  IInv'
<1> USE DEF WriteFile, Goto, IInv, convs
<1>1. TypeOK' /\ MutexInv'
  BY DEF TypeOK, MutexInv, Busy
<1>2. PlaceInv' /\ RemovalInv'
  BY ListedEntries DEF TypeOK, PlaceInv, RemovalInv, Listed
<1>3. VouchInv' /\ PairInv'
  BY DEF TypeOK, VouchInv, PairInv
<1>4. SweepInv' /\ ConvertInv' /\ ServedUntilExpiry'
  BY DEF TypeOK, SweepInv, ConvertInv, ServedUntilExpiry, PlaceInv
<1> QED
  BY <1>1, <1>2, <1>3, <1>4

LEMMA WriteManifestKeeps ==
    ASSUME IInv, NEW d \in Ids, WriteManifest(d)
    PROVE  IInv'
<1> USE DEF WriteManifest, Goto, IInv, convs
<1>1. TypeOK'
  <2>1. now + Retention \in 0 .. MaxTime + Retention
    BY TimeAssumption DEF TypeOK
  <2> DEFINE Disks == [Ids -> [file : {"none", "part", "whole"}, manifest : {"none", "part", "whole"},
                               markdown : {"none", "whole"}, expires : 0 .. MaxTime + Retention]]
             written == [disk EXCEPT ![d].manifest = "whole"]
  <2>2. written \in Disks
    BY DEF TypeOK
  <2> HIDE DEF written
  <2>3. [written EXCEPT ![d].expires = now + Retention] \in Disks
    BY <2>1, <2>2
  <2>4. disk' \in Disks
    BY <2>3, Zenon DEF written
  <2> QED
    BY <2>4 DEF TypeOK
<1>2. MutexInv'
  BY DEF TypeOK, MutexInv, Busy
<1>3. PlaceInv' /\ RemovalInv'
  BY ListedEntries DEF TypeOK, PlaceInv, RemovalInv, Listed
<1>4. VouchInv' /\ PairInv'
  BY DEF TypeOK, VouchInv, PairInv, PlaceInv
<1>5. SweepInv'
  BY DEF TypeOK, SweepInv, MutexInv, Busy
<1>6. ConvertInv' /\ ServedUntilExpiry'
  BY DEF TypeOK, ConvertInv, ServedUntilExpiry, PlaceInv
<1> QED
  BY <1>1, <1>3, <1>4, <1>5, <1>6, <1>2

-----------------------------------------------------------------------------
(* A write that does not come to its end.                                  *)

\* What a failed write, or the death of the server in it, leaves of a download.
LEMMA InterruptedWrite ==
    ASSUME IInv, NEW d \in Ids, pc[d] \in {"file", "manifest"}, disk' \in Interrupted(d, pc[d])
    PROVE  /\ disk' \in [Ids -> [file : {"none", "part", "whole"}, manifest : {"none", "part", "whole"},
                                 markdown : {"none", "whole"}, expires : 0 .. MaxTime + Retention]]
           /\ \A a \in Ids \ {d} : disk'[a] = disk[a]
           /\ disk'[d].manifest # "whole"
<1>1. disk[d].manifest = "none"
  BY DEF IInv, PlaceInv
<1> QED
  BY <1>1 DEF Interrupted, IInv, TypeOK

LEMMA StoreFailsKeeps ==
    ASSUME IInv, NEW d \in Ids, StoreFails(d)
    PROVE  IInv'
<1> USE DEF IInv, convs
<1>1. /\ pc[d] \in {"file", "manifest"} /\ disk' \in Interrupted(d, pc[d])
      /\ storeFailed' = TRUE /\ pc' = [pc EXCEPT ![d] = "done"]
      /\ UNCHANGED <<now, there, served, todo, since, removing, convs, crashes>>
  BY DEF StoreFails, Goto
<1>2. /\ disk' \in [Ids -> [file : {"none", "part", "whole"}, manifest : {"none", "part", "whole"},
                            markdown : {"none", "whole"}, expires : 0 .. MaxTime + Retention]]
      /\ \A a \in Ids \ {d} : disk'[a] = disk[a]
      /\ disk'[d].manifest # "whole"
  BY <1>1, InterruptedWrite
<1>3. TypeOK'
  BY <1>1, <1>2 DEF TypeOK
<1>4. MutexInv'
  BY <1>1 DEF TypeOK, MutexInv, Busy
<1>5. PlaceInv' /\ RemovalInv'
  BY <1>1, <1>2 DEF TypeOK, PlaceInv, RemovalInv, Listed
<1>6. VouchInv' /\ PairInv'
  BY <1>1, <1>2 DEF TypeOK, VouchInv, PairInv
<1>7. SweepInv' /\ ConvertInv' /\ ServedUntilExpiry'
  BY <1>1, <1>2 DEF TypeOK, SweepInv, ConvertInv, ServedUntilExpiry, PlaceInv
<1> QED
  BY <1>3, <1>5, <1>6, <1>7, <1>4

LEMMA CrashKeeps ==
    ASSUME IInv, Crash
    PROVE  IInv'
<1> USE DEF IInv, convs
<1>1. /\ crashes' = crashes + 1 /\ crashes < MaxCrash
      /\ pc' = [d \in Ids |-> IF pc[d] = "idle" THEN "idle" ELSE "done"]
      /\ todo' = {} /\ removing' = NoRemoval
      /\ UNCHANGED <<now, there, served, since, convs, storeFailed>>
  BY DEF Crash
<1> DEFINE Disks == [Ids -> [file : {"none", "part", "whole"}, manifest : {"none", "part", "whole"},
                            markdown : {"none", "whole"}, expires : 0 .. MaxTime + Retention]]
<1>2. /\ disk' \in Disks
      /\ \A a \in Ids : disk'[a] = disk[a] \/ (disk'[a].manifest # "whole" /\ pc[a] \in {"file", "manifest"})
  <2>1. CASE disk' = disk
    <3>1. disk \in Disks
      BY DEF TypeOK
    <3> QED
      BY <2>1, <3>1
  <2>2. CASE \E d \in Ids : pc[d] \in {"file", "manifest"} /\ disk' \in Interrupted(d, pc[d])
    BY <2>2, InterruptedWrite
  <2> QED
    BY <2>1, <2>2 DEF Crash
<1>3. TypeOK'
  BY <1>1, <1>2, TimeAssumption DEF TypeOK, NoRemoval
<1>4. MutexInv'
  BY <1>1 DEF TypeOK, MutexInv, Busy
<1>5. PlaceInv' /\ RemovalInv'
  BY <1>1, <1>2 DEF TypeOK, PlaceInv, RemovalInv, Listed
<1>6. VouchInv' /\ PairInv'
  BY <1>1, <1>2, ListedEntries DEF TypeOK, VouchInv, PairInv, PlaceInv
<1>7. SweepInv' /\ ConvertInv' /\ ServedUntilExpiry'
  BY <1>1, <1>2 DEF TypeOK, SweepInv, ConvertInv, ServedUntilExpiry, PlaceInv
<1> QED
  BY <1>3, <1>5, <1>6, <1>7, <1>4

-----------------------------------------------------------------------------
(* Converters and the clock.                                               *)

LEMMA OpenKeeps ==
    ASSUME IInv, NEW k \in Converters, NEW d \in Ids, Open(k, d) \/ Read(k) \/ GiveUp(k)
    PROVE  IInv'
<1> USE DEF Open, Read, GiveUp, Become, IInv, server
<1>1. TypeOK'
  BY DEF TypeOK
<1>2. ConvertInv'
  BY DEF TypeOK, ConvertInv
<1>3. MutexInv' /\ PlaceInv' /\ RemovalInv'
  BY DEF MutexInv, PlaceInv, RemovalInv, Listed
<1>4. VouchInv' /\ PairInv' /\ SweepInv' /\ ServedUntilExpiry'
  BY DEF VouchInv, PairInv, SweepInv, ServedUntilExpiry
<1> QED
  BY <1>1, <1>2, <1>3, <1>4

LEMMA WriteMarkdownKeeps ==
    ASSUME IInv, NEW k \in Converters, WriteMarkdown(k)
    PROVE  IInv'
<1> USE DEF WriteMarkdown, Become, IInv, server
<1>1. TypeOK'
  BY DEF TypeOK
<1>2. ConvertInv'
  BY DEF TypeOK, ConvertInv
<1>3. /\ source[k] \in Ids
      /\ \A d \in Ids : /\ disk'[d].file = disk[d].file /\ disk'[d].manifest = disk[d].manifest
                        /\ disk'[d].expires = disk[d].expires
                        /\ d \notin there => disk'[d] = disk[d]
  BY DEF TypeOK, ConvertInv
<1>4. MutexInv' /\ PlaceInv'
  BY <1>3 DEF MutexInv, PlaceInv, Listed
<1>5. RemovalInv'
  BY <1>3 DEF RemovalInv, TypeOK
<1>6. VouchInv' /\ PairInv' /\ SweepInv' /\ ServedUntilExpiry'
  BY <1>3 DEF VouchInv, PairInv, SweepInv, ServedUntilExpiry, TypeOK
<1> QED
  BY <1>1, <1>2, <1>4, <1>5, <1>6

LEMMA TickKeeps ==
    ASSUME IInv, Tick
    PROVE  IInv'
<1> USE TimeAssumption DEF Tick, IInv, server, convs
<1>1. TypeOK'
  BY DEF TypeOK
<1>2. \A d \in Ids : disk[d].expires \in Nat
  BY DEF TypeOK
<1>3. now \in Nat /\ since \in Nat
  BY DEF TypeOK
<1>4. MutexInv' /\ PlaceInv' /\ PairInv' /\ ConvertInv'
  BY DEF MutexInv, PlaceInv, PairInv, ConvertInv, Listed
<1>5. RemovalInv'
  BY <1>2, <1>3 DEF RemovalInv, TypeOK
<1>6. VouchInv' /\ SweepInv' /\ ServedUntilExpiry'
  BY <1>2, <1>3 DEF VouchInv, SweepInv, ServedUntilExpiry, TypeOK
<1> QED
  BY <1>1, <1>4, <1>5, <1>6

-----------------------------------------------------------------------------
(* The theorems.                                                           *)

LEMMA InitHolds == Init => IInv
<1> SUFFICES ASSUME Init PROVE IInv
  OBVIOUS
<1> USE DEF Init, Empty, NoRemoval
<1>1. TypeOK
  <2>1. /\ 0 \in 0 .. MaxTime /\ 0 \in 0 .. MaxCrash /\ 0 \in 0 .. MaxTime + Retention
    BY TimeAssumption
  <2>2. Empty \in [file : {"none", "part", "whole"}, manifest : {"none", "part", "whole"},
                   markdown : {"none", "whole"}, expires : 0 .. MaxTime + Retention]
    BY <2>1
  <2> QED
    BY <2>1, <2>2 DEF TypeOK
<1>2. MutexInv /\ PlaceInv /\ RemovalInv
  BY DEF MutexInv, PlaceInv, RemovalInv, Busy, Listed, Entries
<1>3. VouchInv /\ PairInv /\ SweepInv /\ ConvertInv /\ ServedUntilExpiry
  BY DEF VouchInv, PairInv, SweepInv, ConvertInv, ServedUntilExpiry
<1> QED
  BY <1>1, <1>2, <1>3 DEF IInv

LEMMA StutterKeeps ==
    ASSUME IInv, UNCHANGED vars
    PROVE  IInv'
<1> USE DEF vars, server, convs, IInv
<1>1. TypeOK' /\ MutexInv' /\ PlaceInv' /\ RemovalInv'
  BY DEF TypeOK, MutexInv, PlaceInv, RemovalInv, Listed
<1>2. VouchInv' /\ PairInv' /\ SweepInv' /\ ConvertInv' /\ ServedUntilExpiry'
  BY DEF VouchInv, PairInv, SweepInv, ConvertInv, ServedUntilExpiry
<1> QED
  BY <1>1, <1>2

LEMMA StepHolds ==
    ASSUME IInv, [Next]_vars
    PROVE  IInv'
<1>1. ASSUME NEW d \in Ids, Start(d) \/ Call(d) PROVE IInv'
  BY <1>1, StartKeeps, LookKeeps, UnlinkKeeps, RemoveDirectoryKeeps, SweptKeeps, FetchedKeeps,
     WriteFileKeeps, WriteManifestKeeps, StoreFailsKeeps DEF Call
<1>2. ASSUME NEW k \in Converters, Convert(k) PROVE IInv'
  <2>1. CASE \E d \in Ids : Open(k, d)
    BY <2>1, OpenKeeps
  <2>2. CASE Read(k) \/ GiveUp(k)
    <3>1. source[k] \in Ids
      BY <2>2 DEF Read, GiveUp, IInv, ConvertInv, TypeOK
    <3> QED
      BY <2>2, <3>1, OpenKeeps
  <2>3. CASE WriteMarkdown(k)
    BY <2>3, WriteMarkdownKeeps
  <2> QED
    BY <1>2, <2>1, <2>2, <2>3 DEF Convert
<1> QED
  BY <1>1, <1>2, CrashKeeps, TickKeeps, StutterKeeps DEF Next

LEMMA InvariantHolds == Spec => []IInv
BY InitHolds, StepHolds, PTL DEF Spec

\* A reference that was given out works until it expires, whatever downloads,
\* removals, converters and deaths of the server come in between.
THEOREM ServedStays == Spec => []ServedUntilExpiry
<1>1. IInv => ServedUntilExpiry
  BY DEF IInv
<1> QED
  BY <1>1, InvariantHolds, PTL

\* The manifest is written last and removed with its file: one that has not
\* expired vouches for a whole file, and without a fault no original is left in
\* a directory that nothing removes.
THEOREM DownloadsCorrect == Spec => []DownloadsInv
<1>1. ASSUME IInv PROVE DownloadsInv
  <2>1. ManifestMeansWhole
    <3> SUFFICES ASSUME NEW d \in there, Untouched(d), disk[d].manifest = "whole", disk[d].expires >= now
                 PROVE  disk[d].file = "whole"
      BY DEF ManifestMeansWhole
    <3>1. d \in Ids /\ pc[d] = "done"
      BY <1>1 DEF IInv, TypeOK, PlaceInv, Untouched
    <3>2. disk[d].expires \in Nat /\ now \in Nat
      BY <1>1, <3>1 DEF IInv, TypeOK
    <3> QED
      BY <1>1, <3>1, <3>2 DEF IInv, VouchInv
  <2>2. OriginalNotLeftBehind
    BY <1>1 DEF IInv, TypeOK, PlaceInv, PairInv, Untouched, OriginalNotLeftBehind
  <2> QED
    BY <1>1, <2>1, <2>2 DEF DownloadsInv, IInv
<1> QED
  BY <1>1, InvariantHolds, PTL

\* A removal that fails for one directory does not spare another one: when it is
\* over, what had expired at its beginning cannot be opened any more.
THEOREM RemovalCompletes == Spec => RemovalIsComplete
<1>1. IInv /\ [Next]_vars =>
        [\A d \in Ids : pc[d] = "sweep" /\ pc'[d] = "fetch" =>
            \A e \in there : disk[e].manifest = "whole" => disk[e].expires >= since]_vars
  <2> SUFFICES ASSUME IInv, Next, NEW d \in Ids, pc[d] = "sweep", pc'[d] = "fetch",
                      NEW e \in there, disk[e].manifest = "whole"
               PROVE  disk[e].expires >= since
    BY Zenon
  <2>1. PICK c \in Ids : Start(c) \/ Call(c)
    <3>1. ~Crash /\ ~Tick
      BY DEF Crash, Tick, server
    <3>2. ASSUME NEW k \in Converters, Convert(k) PROVE FALSE
      BY <3>2 DEF Convert, Open, Read, WriteMarkdown, GiveUp, server
    <3> QED
      BY <3>1, <3>2 DEF Next
  <2>2. Swept(c)
    BY <2>1 DEF IInv, TypeOK, Start, Call, Look, Unlink, RemoveDirectory, Swept, FetchFails, Fetched,
                WriteFile, WriteManifest, StoreFails, Goto
  <2>3. todo = {} /\ removing.id \notin Ids
    BY <2>2, IdsAssumption DEF Swept, NoRemoval
  <2> QED
    BY <2>3 DEF IInv, TypeOK, SweepInv
<1> QED
  BY <1>1, InvariantHolds, PTL DEF Spec, RemovalIsComplete
=============================================================================
