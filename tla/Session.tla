------------------------------ MODULE Session ------------------------------
(***************************************************************************)
(* The stored E-Class login and everything that reads or renews it.        *)
(*                                                                         *)
(* Two processes share one encrypted session file: the E-Class MCP server, *)
(* which answers reads (services/eclass_read.py, one at a time under the   *)
(* user's lock), downloads (services/downloads.py, without that lock) and  *)
(* plays (services/playback.py, one at a time under a lock of its own),    *)
(* and the terminal application, whose synchronisation owns a read service *)
(* of its own.  Both locks, the user's and the one around a login, live in *)
(* one process only.  A login (browser/credential_login.py) saves the new  *)
(* session through a temporary file of a fixed name (browser/session.py).  *)
(*                                                                         *)
(* A file name refers to a node, as in a file system: opening the name for *)
(* writing truncates the node it already has, and replacing moves whatever *)
(* node the temporary name has at that moment.                             *)
(***************************************************************************)
EXTENDS Naturals, FiniteSets

CONSTANTS
    Reads,        \* read calls of the server
    Named,        \* those that look a course up by its name first
    Fetches,      \* download calls of the server
    Plays,        \* play calls of the server
    Syncs,        \* snapshot calls of the terminal application
    MaxCalls,     \* bound: calls of one behaviour
    SyncLength,   \* adapter operations of one snapshot call (the code has five)
    MaxFaults,    \* bound: sessions the LMS ends on its own, plus deaths of processes
    Free          \* a lock nobody holds; a file name without a node

ASSUME CallsAssumption ==
    /\ IsFiniteSet(Reads) /\ IsFiniteSet(Fetches) /\ IsFiniteSet(Plays) /\ IsFiniteSet(Syncs)
    /\ Reads \cap (Fetches \cup Plays \cup Syncs) = {}
    /\ Fetches \cap (Plays \cup Syncs) = {} /\ Plays \cap Syncs = {}
    /\ Named \subseteq Reads
    /\ Free \notin Reads \cup Fetches \cup Plays \cup Syncs \cup Nat
ASSUME BoundsAssumption == SyncLength \in Nat \ {0} /\ {MaxCalls, MaxFaults} \subseteq Nat

Calls == Reads \cup Fetches \cup Plays \cup Syncs
Procs == {"server", "tui"}
Proc(c) == IF c \in Syncs THEN "tui" ELSE "server"

Torn == 0            \* what a node holds before its writer has finished
Nodes == 1 .. Cardinality(Calls) + 2

VARIABLES
    autoLogin,    \* are account and password configured?
    setUp,        \* was a session stored before the first call?
    stored, temp, \* the node behind the session file's and the temporary name
    content,      \* what a node holds: Torn, or the session saved in it
    accepted,     \* the sessions the LMS accepts
    logins,       \* successful logins so far; a session is the number of its login
    refused,      \* has the LMS refused a login?
    userLock, refreshLock,   \* per process: the call that holds it
    pc, answer,   \* per call: where it is, and what it answered
    ctx,          \* per call: what it has at hand (see Fresh)
    expiries, crashes, clash

config == <<autoLogin, setUp>>
file  == <<stored, temp, content>>
lms   == <<accepted, logins, refused, expiries>>
locks == <<userLock, refreshLock>>
vars  == <<config, file, lms, locks, pc, answer, ctx, crashes, clash>>

\* A demand for a new login, or any other answer: data, or a failure.
Answers == {"auth", "other"}

(***************************************************************************)
(* What a call has at hand: the adapter operations it has left, which      *)
(* address a download is at, the session of its browser context, whether   *)
(* this operation has renewed the session already, and what it saves where.*)
(***************************************************************************)
Length(c) == IF c \in Syncs THEN SyncLength ELSE IF c \in Named THEN 2 ELSE 1
Operations == {o \in Calls \X (1 .. SyncLength + 1) : o[2] <= Length(o[1])}

Fresh(c) == [left |-> Length(c), stage |-> "first",
             loaded |-> Torn, retried |-> FALSE, session |-> Torn, node |-> Free]
Places == {"idle", "queued", "load", "page", "fetch", "renew", "login", "open", "fill",
           "replace", "reload", "done"}

TypeOK ==
    /\ autoLogin \in BOOLEAN /\ setUp \in BOOLEAN
    /\ {stored, temp} \subseteq Nodes \cup {Free}
    /\ content \in [Nodes -> Nat]
    /\ accepted \subseteq 1 .. logins /\ logins \in Nat /\ refused \in BOOLEAN
    /\ userLock \in [Procs -> Calls \cup {Free}]
    /\ refreshLock \in [Procs -> Calls \cup {Free}]
    /\ pc \in [Calls -> Places]
    /\ answer \in [Calls -> Answers \cup {"none"}]
    /\ ctx \in [Calls -> [left : 1 .. SyncLength + 1, stage : {"first", "viewer"}, loaded : Nat,
                          retried : BOOLEAN, session : Nat, node : Nodes \cup {Free}]]
    /\ {expiries, crashes} \subseteq 0 .. MaxFaults /\ clash \in BOOLEAN

(***************************************************************************)
(* The start: no login was ever stored, or the one of the set-up, which    *)
(* the LMS may have ended since.                                           *)
(***************************************************************************)
Init ==
    /\ autoLogin \in BOOLEAN /\ setUp \in BOOLEAN
    /\ content = [n \in Nodes |-> IF n = 1 THEN 1 ELSE Torn]
    /\ stored = (IF setUp THEN 1 ELSE Free) /\ temp = Free
    /\ logins = 1 /\ refused = FALSE
    /\ accepted \in IF setUp THEN {{}, {1}} ELSE {{}}
    /\ userLock = [p \in Procs |-> Free] /\ refreshLock = [p \in Procs |-> Free]
    /\ pc = [c \in Calls |-> "idle"]
    /\ answer = [c \in Calls |-> "none"]
    /\ ctx = [c \in Calls |-> Fresh(c)]
    /\ expiries = 0 /\ crashes = 0 /\ clash = FALSE

(***************************************************************************)
(* Saving a session runs without an await: nothing else in its process     *)
(* moves meanwhile, but the other process does.                            *)
(***************************************************************************)
Saving(c) == pc[c] \in {"open", "fill", "replace"}
At(c, place) ==
    /\ pc[c] = place
    /\ \A d \in Calls \ {c} : Proc(d) = Proc(c) => ~Saving(d)

\* The call goes on at a place, with x at hand.
Go(c, place, x) ==
    /\ pc' = [pc EXCEPT ![c] = place]
    /\ ctx' = [ctx EXCEPT ![c] = x]
    /\ UNCHANGED <<config, answer, crashes>>

(***************************************************************************)
(* An answer leaves both locks (async with) and ends the call.             *)
(***************************************************************************)
Leave(lock, c) == [p \in Procs |-> IF lock[p] = c THEN Free ELSE lock[p]]
\* Mutant: a failed login keeps the lock around logins.
AnswerMutant(c, a) ==
    /\ answer' = [answer EXCEPT ![c] = a]
    /\ userLock' = Leave(userLock, c)
    /\ UNCHANGED refreshLock
    /\ pc' = [pc EXCEPT ![c] = "done"]
    /\ ctx' = [ctx EXCEPT ![c] = Fresh(c)]
    /\ UNCHANGED <<config, crashes>>

Answer(c, a) ==
    /\ answer' = [answer EXCEPT ![c] = a]
    /\ userLock' = Leave(userLock, c)
    /\ refreshLock' = Leave(refreshLock, c)
    /\ pc' = [pc EXCEPT ![c] = "done"]
    /\ ctx' = [ctx EXCEPT ![c] = Fresh(c)]
    /\ UNCHANGED <<config, crashes>>

(***************************************************************************)
(* An AuthRequiredError inside an adapter operation: one renewal, and the  *)
(* operation runs once more; the second error is the answer.               *)
(***************************************************************************)
\* Mutant: every authentication error is followed by another login.
AuthRequiredMutant(c) ==
    IF autoLogin
    THEN Go(c, "renew", ctx[c]) /\ UNCHANGED locks
    ELSE Answer(c, "auth")

AuthRequired(c) ==
    IF autoLogin /\ ~ctx[c].retried
    THEN Go(c, "renew", [ctx[c] EXCEPT !.retried = TRUE]) /\ UNCHANGED locks
    ELSE Answer(c, "auth")

\* A read of any kind waits for the user's lock of its process, a play for
\* that of the playbacks; a download waits for nobody.
Ask(c) ==
    /\ At(c, "idle")
    /\ Cardinality({d \in Calls : pc[d] # "idle"}) < MaxCalls
    /\ Go(c, IF c \in Fetches THEN "load" ELSE "queued", ctx[c])
    /\ UNCHANGED <<file, lms, locks, clash>>

TakeUserLock(c) ==
    /\ c \notin Plays
    /\ At(c, "queued")
    /\ userLock[Proc(c)] = Free
    /\ userLock' = [userLock EXCEPT ![Proc(c)] = c]
    /\ Go(c, "load", ctx[c])
    /\ UNCHANGED <<file, lms, refreshLock, clash>>

TakePlayLock(c) ==
    /\ c \in Plays
    /\ At(c, "queued")
    /\ \A d \in Plays \ {c} : pc[d] \in {"idle", "queued", "done"}
    /\ Go(c, "load", ctx[c])
    /\ UNCHANGED <<file, lms, locks, clash>>

\* A missing or undecryptable file is an AuthRequiredError.
Readable == stored # Free /\ content[stored] # Torn
WithStored(c) == [ctx[c] EXCEPT !.loaded = content[stored]]

(***************************************************************************)
(* Each attempt of an adapter operation opens a context from the stored    *)
(* file.  Where that raises, a read renews the session, a play answers the *)
(* authentication error, and a download only that it failed.               *)
(***************************************************************************)
Load(c) ==
    /\ At(c, "load")
    /\ \/ /\ Readable
          /\ Go(c, IF c \in Fetches THEN "fetch" ELSE "page", WithStored(c))
          /\ UNCHANGED locks
       \/ ~Readable /\ c \in Reads \cup Syncs /\ AuthRequired(c)
       \/ ~Readable /\ c \in Plays /\ Answer(c, "auth")
       \/ ~Readable /\ c \in Fetches /\ Answer(c, "other")
    /\ UNCHANGED <<file, lms, clash>>

(***************************************************************************)
(* The pages of an adapter operation: a refused session shows as a login   *)
(* page, an accepted one yields data or an item that is missing or cannot  *)
(* be parsed; the network can fail under either.  A snapshot goes on with  *)
(* its next operation, a read of a named course waits for the lock again.  *)
(***************************************************************************)
PageRefused(c) ==
    /\ At(c, "page") /\ ctx[c].loaded \notin accepted
    /\ AuthRequired(c)
    /\ UNCHANGED <<file, lms, clash>>

PageRead(c) ==
    /\ At(c, "page") /\ ctx[c].loaded \in accepted
    /\ LET next == [Fresh(c) EXCEPT !.left = ctx[c].left - 1]
       IN  \/ ctx[c].left = 1 /\ Answer(c, "other")
           \/ ctx[c].left > 1 /\ c \in Syncs /\ Go(c, "load", next) /\ UNCHANGED locks
           \/ /\ ctx[c].left > 1 /\ c \in Named
              /\ Go(c, "queued", next)
              /\ userLock' = Leave(userLock, c) /\ UNCHANGED refreshLock
    /\ UNCHANGED <<file, lms, clash>>

PageFails(c) ==
    /\ At(c, "page")
    /\ Answer(c, "other")
    /\ UNCHANGED <<file, lms, clash>>

(***************************************************************************)
(* The responses a download can get.  A refused session is answered with a *)
(* status or with a login page; an accepted one with the file, a page that *)
(* embeds the file's address, another page, or an error.  Where an .html   *)
(* file is expected, a page, the login page included, is taken for it.     *)
(***************************************************************************)
Responses(c) ==
    IF ctx[c].loaded \in accepted
    THEN {"file", "html", "page", "missing"} \cup (IF ctx[c].stage = "first" THEN {"viewer"} ELSE {})
    ELSE {"denied", "page", "html"}

\* What is answered for a page that is not the file: a login page, or another one.
NotTheFile(c) == IF ctx[c].loaded \in accepted THEN "other" ELSE "auth"

MayRenew(c) == autoLogin /\ ~ctx[c].retried

Fetch(c) ==
    /\ At(c, "fetch")
    /\ \E r \in Responses(c) :
         \/ r \in {"file", "html", "missing"} /\ Answer(c, "other")
         \/ /\ r = "viewer"
            /\ Go(c, "fetch", [ctx[c] EXCEPT !.stage = "viewer"]) /\ UNCHANGED locks
         \/ r = "denied" /\ AuthRequired(c)
         \/ r = "page" /\ ctx[c].stage = "first" /\ MayRenew(c) /\ AuthRequired(c)
         \/ r = "page" /\ ~(ctx[c].stage = "first" /\ MayRenew(c)) /\ Answer(c, NotTheFile(c))
    /\ UNCHANGED <<file, lms, clash>>

FetchFails(c) ==
    /\ At(c, "fetch")
    /\ Answer(c, "other")
    /\ UNCHANGED <<file, lms, clash>>

(***************************************************************************)
(* Renewing the session.  The lock makes the logins of a process follow    *)
(* one another: a call that waited for it logs in again all the same.      *)
(***************************************************************************)
TakeRefreshLock(c) ==
    /\ At(c, "renew")
    /\ refreshLock[Proc(c)] = Free
    /\ refreshLock' = [refreshLock EXCEPT ![Proc(c)] = c]
    /\ Go(c, "login", ctx[c])
    /\ UNCHANGED <<file, lms, userLock, clash>>

\* The LMS does not log in: a read reports it, a download only that it failed.
LoginRefused(c) ==
    /\ At(c, "login")
    /\ refused' = TRUE
    /\ Answer(c, IF c \in Fetches THEN "other" ELSE "auth")
    /\ UNCHANGED <<file, accepted, logins, expiries, clash>>

LoginFails(c) ==
    /\ At(c, "login")
    /\ Answer(c, "other")
    /\ UNCHANGED <<file, lms, clash>>

LoginDone(c) ==
    /\ At(c, "login")
    /\ logins' = logins + 1
    /\ accepted' = accepted \cup {logins'}
    /\ Go(c, "open", [ctx[c] EXCEPT !.session = logins'])
    /\ UNCHANGED <<file, locks, refused, expiries, clash>>

(***************************************************************************)
(* save_encrypted_storage_state: open the temporary name, write, rename.   *)
(***************************************************************************)
Written(n) == \E c \in Calls : ctx[c].node = n
FreshNode == CHOOSE n \in Nodes : n \notin {stored, temp} /\ ~Written(n)

\* Mutant: the session is written over the stored one, without a temporary file.
OpenTempMutant(c) ==
    /\ At(c, "open")
    /\ LET n == IF stored = Free THEN FreshNode ELSE stored
       IN  /\ temp' = n
           /\ content' = [content EXCEPT ![n] = Torn]
           /\ Go(c, "fill", [ctx[c] EXCEPT !.node = n])
    /\ clash' = (clash \/ \E d \in Calls \ {c} : pc[d] \in {"fill", "replace"})
    /\ UNCHANGED <<stored, lms, locks>>

OpenTemp(c) ==
    /\ At(c, "open")
    /\ LET n == IF temp = Free THEN FreshNode ELSE temp
       IN  /\ temp' = n
           /\ content' = [content EXCEPT ![n] = Torn]
           /\ Go(c, "fill", [ctx[c] EXCEPT !.node = n])
    /\ clash' = (clash \/ \E d \in Calls \ {c} : pc[d] \in {"fill", "replace"})
    /\ UNCHANGED <<stored, lms, locks>>

\* Two writers of one node leave one's bytes or a mixture of both.
FillTemp(c) ==
    /\ At(c, "fill")
    /\ LET n == ctx[c].node
           s == ctx[c].session
       IN  \E v \in IF content[n] = Torn THEN {s} ELSE {s, Torn} :
             content' = [content EXCEPT ![n] = v]
    /\ Go(c, "replace", ctx[c])
    /\ UNCHANGED <<stored, temp, lms, locks, clash>>

\* Mutant: the operation is retried with the page it already has.
ReplaceStoredMutant(c) ==
    /\ At(c, "replace") /\ temp # Free
    /\ stored' = temp /\ temp' = Free
    /\ refreshLock' = Leave(refreshLock, c)
    /\ Go(c, IF c \in Fetches THEN "fetch" ELSE "page",
          [ctx[c] EXCEPT !.session = Torn, !.node = Free])
    /\ UNCHANGED <<content, userLock, lms, clash>>

\* Without the temporary name the rename fails, and with it the whole operation.
ReplaceStored(c) ==
    /\ At(c, "replace")
    /\ \/ /\ temp = Free
          /\ Answer(c, "other")
          /\ UNCHANGED file
       \/ /\ temp # Free
          /\ stored' = temp /\ temp' = Free
          /\ content' = [n \in Nodes |-> IF n = stored /\ ~Written(n) THEN Torn ELSE content[n]]
          /\ refreshLock' = Leave(refreshLock, c)
          /\ Go(c, IF c \in Fetches \cup Plays THEN "reload" ELSE "load",
                [ctx[c] EXCEPT !.session = Torn, !.node = Free])
          /\ UNCHANGED userLock
    /\ UNCHANGED <<lms, clash>>

\* A download, or a play, adds the renewed cookies to the context it has.
Reload(c) ==
    /\ At(c, "reload")
    /\ IF Readable
       THEN Go(c, IF c \in Fetches THEN "fetch" ELSE "page", WithStored(c)) /\ UNCHANGED locks
       ELSE Answer(c, IF c \in Fetches THEN "other" ELSE "auth")
    /\ UNCHANGED <<file, lms, clash>>

(***************************************************************************)
(* The environment: the LMS ends a session, a process dies.  A process     *)
(* without a running call has nothing to lose: its death changes nothing.  *)
(***************************************************************************)
Expire ==
    /\ expiries + crashes < MaxFaults
    /\ \E s \in accepted : accepted' = accepted \ {s}
    /\ expiries' = expiries + 1
    /\ UNCHANGED <<config, file, logins, refused, locks, pc, answer, ctx, crashes, clash>>

Crash ==
    /\ expiries + crashes < MaxFaults
    /\ crashes' = crashes + 1
    /\ \E dead \in SUBSET Procs \ {{}} :
         LET Dies(c) == Proc(c) \in dead /\ pc[c] \notin {"idle", "done"}
         IN  /\ \E c \in Calls : Dies(c)
             /\ pc' = [c \in Calls |-> IF Dies(c) THEN "done" ELSE pc[c]]
             /\ answer' = [c \in Calls |-> IF Dies(c) THEN "other" ELSE answer[c]]
             /\ ctx' = [c \in Calls |-> IF Dies(c) THEN Fresh(c) ELSE ctx[c]]
             /\ userLock' = [p \in Procs |-> IF p \in dead THEN Free ELSE userLock[p]]
             /\ refreshLock' = [p \in Procs |-> IF p \in dead THEN Free ELSE refreshLock[p]]
    /\ UNCHANGED <<config, file, lms, clash>>

(***************************************************************************)
(* Every request of a browser has a timeout, so some started call goes on; *)
(* as each has finitely many steps, none is passed over for ever.          *)
(***************************************************************************)
Step(c) ==
    \/ TakeUserLock(c) \/ TakePlayLock(c) \/ Load(c)
    \/ PageRefused(c) \/ PageRead(c) \/ PageFails(c) \/ Fetch(c) \/ FetchFails(c)
    \/ TakeRefreshLock(c) \/ LoginRefused(c) \/ LoginFails(c) \/ LoginDone(c)
    \/ OpenTemp(c) \/ FillTemp(c) \/ ReplaceStored(c) \/ Reload(c)

Next == (\E c \in Calls : Ask(c) \/ Step(c)) \/ Expire \/ Crash

Spec == Init /\ [][Next]_vars /\ WF_vars(\E c \in Calls : Step(c))

----------------------------------------------------------------------------
(***************************************************************************)
(* The temporary file does its work: unless the two processes save at the  *)
(* same time, the stored session is a whole one, whatever dies when.       *)
(***************************************************************************)
WholeUnlessClash == ~clash /\ stored # Free => content[stored] # Torn

(***************************************************************************)
(* A user whose account works is told to log in again only if the LMS      *)
(* refused the login or ended a session meanwhile, or by a play before any *)
(* session was stored: neither a dead process, an unfinished save nor a    *)
(* waiting call is a reason (leaving aside a save of both processes at     *)
(* once).                                                                  *)
(***************************************************************************)
AuthMeansRefused ==
    \A c \in Calls :
        answer[c] = "auth" /\ autoLogin /\ ~clash =>
            refused \/ expiries > 0 \/ (c \in Plays /\ ~setUp)

(***************************************************************************)
(* An LMS that refuses every session it hands out is not logged in to      *)
(* without end: one login per adapter operation, download and play of the  *)
(* calls made so far.                                                      *)
(***************************************************************************)
NoLoginStorm == logins - 1 <= Cardinality({o \in Operations : pc[o[1]] # "idle"})

(***************************************************************************)
(* Types, and logins bounded by the operations that need one.              *)
(***************************************************************************)
SessionInv == TypeOK /\ NoLoginStorm

(***************************************************************************)
(* Every call is answered, also one that waits for a lock while the holder *)
(* fails in the middle of a login.                                         *)
(***************************************************************************)
Answered == <>[](\A c \in Calls : pc[c] \in {"idle", "done"})
=============================================================================
