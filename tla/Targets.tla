-------------------------------- MODULE Targets --------------------------------
(***************************************************************************)
(* How words become targets.  A task acts on entities the LMS returned     *)
(* before, never on an id a language model wrote: the runtime chooses them *)
(* from the last verified list of their kind, by a number, a query, a      *)
(* title or a pronoun, and binds nothing unless exactly one fits; the      *)
(* E-Class handler chooses the attachments of a download.  A text is       *)
(* represented by what it matches.                                         *)
(***************************************************************************)
EXTENDS Naturals, Sequences, FiniteSets, SequencesExt

CONSTANT MaxBatch   \* attachments of one download request (5)

\* A query or a file name, by the items whose id or title it matches
\* (_text_matches); "filename" is a query that has a suffix.
NoQuery == [given |-> FALSE, matches |-> {}, filename |-> FALSE]

\* A list that may be downloaded as one batch (of one assignment, which the
\* lists of attachments are).
Sound(l) == l # <<>> /\ Len(l) <= MaxBatch

\* The items of l that are in S, in the order of l.
Keep(l, S) ==
    LET kept[i \in 0..Len(l)] ==
            IF i = 0 THEN <<>>
            ELSE IF l[i] \in S THEN Append(kept[i - 1], l[i]) ELSE kept[i - 1]
    IN  kept[Len(l)]

-----------------------------------------------------------------------------
(* One entity of a list.  The text u of a request has                      *)
(*    number   "N번", or the ordinal of the task's slots; 0 is none        *)
(*    query    the query of the slots                                      *)
(*    titles   the items whose title or id occurs in the text              *)
(*    that     "그 과제" and the like                                      *)
(*    week     the items of the week it names (lectures)                   *)
(* and scope has the items of the term and course of the slots.            *)

\* A number that no item has is dropped; a query narrows the numbered items.
Matches(list, u, scope) ==
    LET inScope == ToSet(list) \cap scope
        numbered == IF u.number \in DOMAIN list THEN {list[u.number]} \cap scope ELSE {}
    IN  IF u.query.given
          THEN (IF numbered # {} THEN numbered ELSE inScope) \cap u.query.matches
          ELSE IF numbered # {} THEN numbered ELSE inScope \cap u.titles

\* The set of the one item chosen; {} when none or several fit.
OnlyOne(S, inScope, that) ==
    IF Cardinality(S) = 1 THEN S
    ELSE IF S = {} /\ Cardinality(inScope) = 1 /\ that THEN inScope ELSE {}

ChooseAnnouncement(list, u, scope) ==
    OnlyOne(Matches(list, u, scope), ToSet(list) \cap scope, u.that)

ChooseAssignment(list, u, scope) ==
    OnlyOne(Matches(list, u, scope), ToSet(list) \cap scope, u.that)

\* For a lecture "재생" and "틀어" are such words as well.
ChooseLecture(list, u, scope) ==
    LET named == Matches(list, u, scope)
        inScope == ToSet(list) \cap scope
    IN  OnlyOne(IF named # {} THEN named ELSE inScope \cap u.week, inScope, u.that)

-----------------------------------------------------------------------------
(* Attachments.  The text also has                                         *)
(*    file     a file name, with its suffix                                *)
(*    plural   "파일들", "모두"                                             *)
(*    suffix   the files of a type it names ("한글", "압축")                *)
(*    vague    "파일", "문서", "분석"                                       *)

\* The selector that must be obeyed: a file name in the text comes before the
\* query the Manager made of it.
Selector(u) == IF u.file.given THEN u.file ELSE u.query

\* What an explicit selector of u stands for in the list.
Denoted(list, u) ==
    LET numbered == IF u.number \in DOMAIN list THEN {list[u.number]} ELSE {}
        pool == IF u.number = 0 THEN ToSet(list) ELSE numbered
    IN  IF Selector(u).given THEN pool \cap Selector(u).matches ELSE numbered

\* A general query with a plural ("파일들") is not a selector.
Explicit(list, u) ==
    \/ u.number # 0
    \/ Selector(u).given /\ (u.file.given \/ ~u.plural \/ Denoted(list, u) # {})

\* _attach_verified_attachment_target up to the check of the batch: <<>>
\* stands for binding nothing.
SelectFiles(list, u, parent) ==
    LET titled == ToSet(list) \cap u.titles
        typed == ToSet(list) \cap u.suffix
        matched ==
            IF Explicit(list, u) THEN Denoted(list, u)
            ELSE IF ~Selector(u).given /\ titled # {} THEN titled
            ELSE IF typed # {} THEN typed
            ELSE IF u.plural \/ (Len(list) = 1 /\ u.vague) THEN ToSet(list)
            ELSE {}
        selected == Keep(list, matched)
    IN  IF /\ Sound(selected)
           /\ Len(selected) > 1 => u.plural
           /\ \A f, g \in matched : parent[f] = parent[g]
          THEN selected ELSE <<>>

\* Mutant: a file name nothing matches is taken for a general word.
SelectForDownloadMutant(ordinal, query, l) ==
    LET named == Keep(l, query.matches)
        selected == IF ordinal > 0
                      THEN IF ordinal <= Len(l) THEN <<l[ordinal]>> ELSE <<>>
                      ELSE IF query.given /\ named # <<>> THEN named ELSE l
    IN  IF Sound(selected) THEN selected ELSE <<>>

\* _select_attachments_for_download of the E-Class handler, which has the
\* slots of the task only; <<>> stands for its refusals.
SelectForDownload(ordinal, query, l) ==
    LET named == Keep(l, query.matches)
        selected ==
            IF ordinal > 0 THEN IF ordinal <= Len(l) THEN <<l[ordinal]>> ELSE <<>>
            ELSE IF ~query.given THEN l
            ELSE IF named # <<>> THEN named
            ELSE IF query.filename THEN <<>> ELSE l
    IN  IF Sound(selected) THEN selected ELSE <<>>
=============================================================================
