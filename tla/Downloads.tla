----------------------------- MODULE Downloads -----------------------------
(***************************************************************************)
(* The directory of temporary attachments.  The E-Class server stores each *)
(* download in a directory of its own, the file first and its manifest     *)
(* last, and removes expired ones at the start of the next download        *)
(* (services/downloads.py).  A converter, a process of its own started for *)
(* one file, reads such a directory and leaves its Markdown in it          *)
(* (document_mcp_server/server.py): it can be at work on a directory that  *)
(* expires and is removed meanwhile.                                       *)
(*                                                                         *)
(* Removal and storing run without an await: the calls of the server do    *)
(* not interleave there, but converters, the clock and the death of the    *)
(* server do.                                                              *)
(***************************************************************************)
EXTENDS Naturals, FiniteSets

CONSTANTS
    Ids,          \* download calls; a call names its directory
    Converters,   \* runs of the converter
    Retention,    \* how long a download is kept
    MaxTime,      \* bound: the clock
    MaxCrash,     \* bound: deaths of the server
    Nothing       \* no directory, no call

ASSUME IdsAssumption == Nothing \notin Ids /\ IsFiniteSet(Ids)
ASSUME TimeAssumption == Retention \in Nat /\ MaxTime \in Nat /\ MaxCrash \in Nat

VARIABLES
    now,
    there,        \* the directories that exist
    disk,         \* what a directory holds: file, manifest, Markdown, expiry
    pc,           \* per call: idle, sweep, fetch, file, manifest, done
    served,       \* the downloads that were answered with a reference
    todo,         \* of the removal under way: the manifests found and not looked at
    since,        \* when it began
    removing,     \* the directory it is deleting and the entries it listed
    at, source,   \* per converter: where it is, and the download it converts
    storeFailed, crashes

server == <<pc, served, todo, since, removing>>
convs  == <<at, source>>
vars   == <<now, there, disk, server, convs, storeFailed, crashes>>

Entries == {"file", "manifest", "markdown"}
Empty == [file |-> "none", manifest |-> "none", markdown |-> "none", expires |-> 0]
NoRemoval == [id |-> Nothing, listed |-> {}]

TypeOK ==
    /\ now \in 0 .. MaxTime
    /\ there \subseteq Ids /\ served \subseteq Ids /\ todo \subseteq Ids
    /\ disk \in [Ids -> [file : {"none", "part", "whole"}, manifest : {"none", "part", "whole"},
                         markdown : {"none", "whole"}, expires : 0 .. MaxTime + Retention]]
    /\ pc \in [Ids -> {"idle", "sweep", "fetch", "file", "manifest", "done"}]
    /\ since \in 0 .. MaxTime
    /\ removing \in [id : Ids \cup {Nothing}, listed : SUBSET Entries]
    /\ at \in [Converters -> {"idle", "hash", "convert", "write", "ok", "failed"}]
    /\ source \in [Converters -> Ids \cup {Nothing}]
    /\ storeFailed \in BOOLEAN /\ crashes \in 0 .. MaxCrash

Init ==
    /\ now = 0 /\ since = 0
    /\ there = {} /\ served = {} /\ todo = {}
    /\ disk = [d \in Ids |-> Empty]
    /\ pc = [d \in Ids |-> "idle"]
    /\ removing = NoRemoval
    /\ at = [k \in Converters |-> "idle"] /\ source = [k \in Converters |-> Nothing]
    /\ storeFailed = FALSE /\ crashes = 0

\* A call that runs without an await keeps the other calls of the server out.
Alone(d) == \A e \in Ids \ {d} : pc[e] \notin {"sweep", "file", "manifest"}
Goto(d, place) == pc' = [pc EXCEPT ![d] = place]

(***************************************************************************)
(* cleanup_expired, the first thing a download does: look at each manifest *)
(* there is, delete the directory of an expired one entry by entry, and    *)
(* go on with the next one if that fails.                                  *)
(***************************************************************************)
Start(d) ==
    /\ pc[d] = "idle" /\ Alone(d)
    /\ Goto(d, "sweep")
    /\ todo' = {e \in there : disk[e].manifest # "none"}
    /\ since' = now
    /\ UNCHANGED <<now, there, disk, served, removing, convs, storeFailed, crashes>>

\* An unreadable manifest is passed over.
Listed(e) == {x \in Entries : disk[e][x] # "none"}
\* Mutant: the comparison with the clock is turned around.
LookMutant(d, e) ==
    /\ pc[d] = "sweep" /\ removing = NoRemoval /\ e \in todo
    /\ todo' = todo \ {e}
    /\ removing' = IF disk[e].manifest = "whole" /\ disk[e].expires > now
                   THEN [id |-> e, listed |-> Listed(e)]
                   ELSE NoRemoval
    /\ UNCHANGED <<now, there, disk, pc, served, since, convs, storeFailed, crashes>>

Look(d, e) ==
    /\ pc[d] = "sweep" /\ removing = NoRemoval /\ e \in todo
    /\ todo' = todo \ {e}
    /\ removing' = IF disk[e].manifest = "whole" /\ disk[e].expires < now
                   THEN [id |-> e, listed |-> Listed(e)]
                   ELSE NoRemoval
    /\ UNCHANGED <<now, there, disk, pc, served, since, convs, storeFailed, crashes>>

Unlink(d) ==
    /\ pc[d] = "sweep" /\ removing # NoRemoval
    /\ \E x \in removing.listed :
         /\ disk' = [disk EXCEPT ![removing.id][x] = "none"]
         /\ removing' = [removing EXCEPT !.listed = @ \ {x}]
    /\ UNCHANGED <<now, there, pc, served, todo, since, convs, storeFailed, crashes>>

\* Mutant: the first directory that cannot be removed ends the removal.
RemoveDirectoryMutant(d) ==
    /\ pc[d] = "sweep" /\ removing # NoRemoval /\ removing.listed = {}
    /\ there' = IF Listed(removing.id) = {} THEN there \ {removing.id} ELSE there
    /\ todo' = IF Listed(removing.id) = {} THEN todo ELSE {}
    /\ removing' = NoRemoval
    /\ UNCHANGED <<now, disk, pc, served, since, convs, storeFailed, crashes>>

\* Markdown that appeared after the listing keeps the directory from being removed.
RemoveDirectory(d) ==
    /\ pc[d] = "sweep" /\ removing # NoRemoval /\ removing.listed = {}
    /\ there' = IF Listed(removing.id) = {} THEN there \ {removing.id} ELSE there
    /\ removing' = NoRemoval
    /\ UNCHANGED <<now, disk, pc, served, todo, since, convs, storeFailed, crashes>>

Swept(d) ==
    /\ pc[d] = "sweep" /\ todo = {} /\ removing = NoRemoval
    /\ Goto(d, "fetch")
    /\ UNCHANGED <<now, there, disk, served, todo, since, removing, convs, storeFailed, crashes>>

(***************************************************************************)
(* The download itself, which waits for the network; what can be refused   *)
(* there is the subject of Session.  Only a checked file gets a directory. *)
(***************************************************************************)
FetchFails(d) ==
    /\ pc[d] = "fetch" /\ Alone(d)
    /\ Goto(d, "done")
    /\ UNCHANGED <<now, there, disk, served, todo, since, removing, convs, storeFailed, crashes>>

\* Mutant: the manifest is written first.
FetchedMutant(d) ==
    /\ pc[d] = "fetch" /\ Alone(d)
    /\ there' = there \cup {d}
    /\ disk' = [disk EXCEPT ![d].manifest = "whole", ![d].expires = now + Retention]
    /\ Goto(d, "file")
    /\ UNCHANGED <<now, served, todo, since, removing, convs, storeFailed, crashes>>

Fetched(d) ==
    /\ pc[d] = "fetch" /\ Alone(d)
    /\ there' = there \cup {d}
    /\ Goto(d, "file")
    /\ UNCHANGED <<now, disk, served, todo, since, removing, convs, storeFailed, crashes>>

WriteFile(d) ==
    /\ pc[d] = "file"
    /\ disk' = [disk EXCEPT ![d].file = "whole"]
    /\ Goto(d, "manifest")
    /\ UNCHANGED <<now, there, served, todo, since, removing, convs, storeFailed, crashes>>

WriteManifest(d) ==
    /\ pc[d] = "manifest"
    /\ disk' = [disk EXCEPT ![d].manifest = "whole", ![d].expires = now + Retention]
    /\ served' = served \cup {d}
    /\ Goto(d, "done")
    /\ UNCHANGED <<now, there, todo, since, removing, convs, storeFailed, crashes>>

\* What a write that does not come to its end leaves of what it wrote.
Interrupted(d, x) == {disk, [disk EXCEPT ![d][x] = "part"]}

\* The disk fails: the answer is a failure, what was written stays.
StoreFails(d) ==
    /\ pc[d] \in {"file", "manifest"}
    /\ disk' \in Interrupted(d, pc[d])
    /\ storeFailed' = TRUE
    /\ Goto(d, "done")
    /\ UNCHANGED <<now, there, served, todo, since, removing, convs, crashes>>

(***************************************************************************)
(* The server dies at any point; the calls under way are lost.             *)
(***************************************************************************)
Crash ==
    /\ crashes < MaxCrash
    /\ crashes' = crashes + 1
    /\ pc' = [d \in Ids |-> IF pc[d] = "idle" THEN "idle" ELSE "done"]
    /\ \/ disk' = disk
       \/ \E d \in Ids : pc[d] \in {"file", "manifest"} /\ disk' \in Interrupted(d, pc[d])
    /\ todo' = {} /\ removing' = NoRemoval
    /\ UNCHANGED <<now, there, served, since, convs, storeFailed>>

(***************************************************************************)
(* convert_download: the manifest and its expiry, the hash of the file,    *)
(* the conversion, which reads the file again, and the Markdown.           *)
(***************************************************************************)
Become(k, place) == at' = [at EXCEPT ![k] = place]

Open(k, d) ==
    /\ at[k] = "idle" /\ d \in served
    /\ source' = [source EXCEPT ![k] = d]
    /\ Become(k, IF disk[d].manifest = "whole" /\ disk[d].expires > now THEN "hash" ELSE "failed")
    /\ UNCHANGED <<now, there, disk, server, storeFailed, crashes>>

Read(k) ==
    /\ at[k] \in {"hash", "convert"}
    /\ Become(k, IF disk[source[k]].file # "whole" THEN "failed"
                 ELSE IF at[k] = "hash" THEN "convert" ELSE "write")
    /\ UNCHANGED <<now, there, disk, server, source, storeFailed, crashes>>

WriteMarkdown(k) ==
    /\ at[k] = "write"
    /\ IF source[k] \in there
       THEN disk' = [disk EXCEPT ![source[k]].markdown = "whole"] /\ Become(k, "ok")
       ELSE UNCHANGED disk /\ Become(k, "failed")
    /\ UNCHANGED <<now, there, server, source, storeFailed, crashes>>

\* No text in it, too much text, or the three minutes of the client are over.
GiveUp(k) ==
    /\ at[k] \in {"hash", "convert", "write"}
    /\ Become(k, "failed")
    /\ UNCHANGED <<now, there, disk, server, source, storeFailed, crashes>>

Tick ==
    /\ now < MaxTime
    /\ now' = now + 1
    /\ UNCHANGED <<there, disk, server, convs, storeFailed, crashes>>

Call(d) ==
    \/ (\E e \in Ids : Look(d, e)) \/ Unlink(d) \/ RemoveDirectory(d) \/ Swept(d)
    \/ FetchFails(d) \/ Fetched(d) \/ WriteFile(d) \/ WriteManifest(d) \/ StoreFails(d)
Convert(k) == (\E d \in Ids : Open(k, d)) \/ Read(k) \/ WriteMarkdown(k) \/ GiveUp(k)

Next == (\E d \in Ids : Start(d) \/ Call(d)) \/ (\E k \in Converters : Convert(k)) \/ Crash \/ Tick

Spec == Init /\ [][Next]_vars

----------------------------------------------------------------------------
(***************************************************************************)
(* A reference the user was given works until it expires: neither another  *)
(* download's removal nor the death of the server takes the file away.     *)
(***************************************************************************)
ServedUntilExpiry ==
    \A d \in served : disk[d].expires >= now =>
        d \in there /\ disk[d].file = "whole" /\ disk[d].manifest = "whole"

Untouched(d) == pc[d] \in {"idle", "done"} /\ removing.id # d

(***************************************************************************)
(* The manifest is the last thing written, so whatever dies or fails when, *)
(* a directory that has one and has not expired has the whole file too.    *)
(***************************************************************************)
ManifestMeansWhole ==
    \A d \in there :
        Untouched(d) /\ disk[d].manifest = "whole" /\ disk[d].expires >= now
            => disk[d].file = "whole"

(***************************************************************************)
(* Nothing removes a directory without a readable manifest.  As long as no *)
(* write failed and the server did not die, such a directory never holds   *)
(* the original: at most the Markdown of a converter that was overtaken.   *)
(***************************************************************************)
OriginalNotLeftBehind ==
    ~storeFailed /\ crashes = 0 =>
        \A d \in there : Untouched(d) /\ disk[d].manifest = "none" => disk[d].file = "none"

(***************************************************************************)
(* A removal that failed for one directory still removes the others: when  *)
(* it is over, nothing that had expired when it began can be opened.       *)
(***************************************************************************)
RemovalIsComplete ==
    [][\A d \in Ids : pc[d] = "sweep" /\ pc'[d] = "fetch" =>
         \A e \in there : disk[e].manifest = "whole" => disk[e].expires >= since]_vars

(***************************************************************************)
(* Types, a manifest that vouches for its file, and no original that       *)
(* nothing removes.                                                        *)
(***************************************************************************)
DownloadsInv == TypeOK /\ ManifestMeansWhole /\ OriginalNotLeftBehind
=============================================================================
