----------------------------- MODULE RetainedRuns -----------------------------
(* Finding runs on disk (supervisor_api.py, storage.py).  A session's runs    *)
(* are directories whose names sort by age; a run is valid while its manifest *)
(* can be loaded.  A request enumerates directories up to a limit, in the     *)
(* order of the file system, and loads what it found one by one, newest       *)
(* first, while starts publish new runs and an operator removes or damages    *)
(* old ones.  It lists the runs of a session, one run of each session, or     *)
(* resolves a session to its newest run for another command.                  *)
EXTENDS Naturals, FiniteSets

CONSTANTS Sessions,     \* numbers, in the order of the names
          MaxRuns,      \* runs of a session: 1 .. MaxRuns, the oldest first
          ScanLimit,    \* MAX_SUPERVISOR_SCAN_ENTRIES
          SessionScan,  \* MAX_JSON_ITEMS as the scan limit of one session
          PageLimit     \* entries of an answer

\* Assumed of the constants by every module that instantiates this one.
RetainedRunsAssumption ==
    /\ Sessions \subseteq Nat /\ IsFiniteSet(Sessions)
    /\ MaxRuns \in Nat /\ ScanLimit \in Nat \ {0}
    /\ SessionScan \in Nat \ {0} /\ PageLimit \in Nat \ {0}

Runs == 1 .. MaxRuns

VARIABLES run,        \* "absent", "starting" (no manifest), "valid", "damaged",
                      \* "removed"
          request,    \* the request in progress or just answered
          throughout  \* ghost: runs that were valid ever since it began

vars == <<run, request, throughout>>

None == [kind |-> "none", at |-> "idle", sessions |-> {}, session |-> 0,
         left |-> {}, page |-> {}, issues |-> {}, cut |-> FALSE]

TypeOK ==
    /\ run \in [Sessions \X Runs ->
                {"absent", "starting", "valid", "damaged", "removed"}]
    /\ request \in [kind : {"none", "runs", "sessions", "resolve"},
                    at : {"idle", "root", "pick", "scan", "load", "reload", "answer"},
                    sessions : SUBSET Sessions, session : Sessions \cup {0},
                    left : SUBSET Runs, page : SUBSET (Sessions \X Runs),
                    issues : SUBSET (Sessions \X (Runs \cup {0})), cut : BOOLEAN]
    /\ Cardinality(request.page) <= PageLimit
    /\ throughout \subseteq Sessions \X Runs

Init == /\ run = [x \in Sessions \X Runs |-> "absent"]
        /\ request = None /\ throughout = {}

Valid(s, r) == run[<<s, r>>] = "valid"
Present(s) == {r \in Runs : run[<<s, r>>] \in {"starting", "valid", "damaged"}}
Known == {s \in Sessions : \E r \in Runs : run[<<s, r>>] # "absent"}
Oldest(S) == CHOOSE r \in S : \A q \in S : r <= q

\* Broken: the listing is sorted the other way round (NewestIsListed,
\* ResolvedIsNewest).
Ascending(S) == Oldest(S)

Newest(S) == CHOOSE r \in S : \A q \in S : r >= q

-----------------------------------------------------------------------------
(* The disk. *)

Becomes(s, r, state) ==
    /\ run' = [run EXCEPT ![<<s, r>>] = state]
    /\ throughout' = throughout \ {<<s, r>>}
    /\ UNCHANGED request

\* A start makes a directory with a later name than all before it.
Begin(s, r) ==
    /\ run[<<s, r>>] = "absent" /\ \A q \in 1 .. r - 1 : run[<<s, q>>] # "absent"
    /\ Becomes(s, r, "starting")

\* The manifest is replaced in one step.
Publish(s, r) == run[<<s, r>>] = "starting" /\ Becomes(s, r, "valid")

Damage(s, r) == Valid(s, r) /\ Becomes(s, r, "damaged")

Remove(s, r) == r \in Present(s) /\ Becomes(s, r, "removed")

-----------------------------------------------------------------------------
(* A request. *)

Asks(kind, at, s) ==
    /\ request.at \in {"idle", "answer"}
    /\ request' = [None EXCEPT !.kind = kind, !.at = at, !.session = s]
    /\ throughout' = {x \in Sessions \X Runs : run[x] = "valid"}
    /\ UNCHANGED run

AskRuns(s) == s \in Known /\ Asks("runs", "scan", s)
AskResolve(s) == s \in Known /\ Asks("resolve", "scan", s)
AskSessions == Asks("sessions", "root", 0)

Goes(changes) == request' = changes /\ UNCHANGED <<run, throughout>>

\* A directory is read entry by entry until the limit: which entries these are
\* is the file system's choice.
Bounded(S, all, limit) ==
    /\ S \subseteq all
    /\ IF Cardinality(all) <= limit THEN S = all ELSE Cardinality(S) = limit

ScanRoot(S) ==
    /\ request.at = "root" /\ Bounded(S, Known, ScanLimit)
    /\ Goes([request EXCEPT !.at = "pick", !.sessions = S,
                            !.cut = Cardinality(Known) > ScanLimit])

\* The next session by name; a full page ends the answer.
PickSession ==
    /\ request.at = "pick" /\ request.sessions # {}
    /\ LET full == Cardinality(request.page) + Cardinality(request.issues) >= PageLimit
           s == Oldest(request.sessions)
       IN Goes(IF full THEN [request EXCEPT !.at = "answer", !.cut = TRUE]
               ELSE [request EXCEPT !.at = "scan", !.session = s,
                                    !.sessions = @ \ {s}])

LastSession ==
    /\ request.at = "pick" /\ request.sessions = {}
    /\ Goes([request EXCEPT !.at = "answer"])

\* Broken: a scan that reached its limit is not reported (HonestPage).
CutNever(all, limit) == FALSE

CutScan(all, limit) == Cardinality(all) > limit

\* bounded_children for the listings; the resolution reads the whole directory.
Scan(S) ==
    /\ request.at = "scan"
    /\ LET all == Present(request.session)
           limit == CASE request.kind = "runs" -> ScanLimit
                      [] request.kind = "sessions" -> SessionScan
                      [] OTHER -> MaxRuns
       IN /\ Bounded(S, all, limit)
          /\ Goes([request EXCEPT !.at = "load", !.left = S,
                      !.cut = @ \/ (request.kind = "runs" /\ CutScan(all, limit))])

Candidate == Newest(request.left)

\* Broken: the page has room for one too many (TypeOK).
HasRoomAtLimit == Cardinality(request.page) <= PageLimit

HasRoom == Cardinality(request.page) < PageLimit

\* A page of runs takes what it has room for; one more valid run only says that
\* there are more.  The first valid run stands for its session; the resolution
\* loads the run it found again.
LoadValid ==
    /\ request.at = "load" /\ request.left # {}
    /\ Valid(request.session, Candidate)
    /\ LET taken == [request EXCEPT !.left = @ \ {Candidate},
                         !.page = @ \cup {<<request.session, Candidate>>}]
       IN Goes(CASE request.kind = "sessions" -> [taken EXCEPT !.at = "pick"]
                 [] request.kind = "resolve" -> [taken EXCEPT !.at = "reload"]
                 [] request.kind = "runs" /\ HasRoom -> taken
                 [] OTHER -> [request EXCEPT !.at = "answer", !.cut = TRUE])

\* Broken: an unreadable candidate ends the search (ResolvedIsNewest).
GivesUp == [request EXCEPT !.at = "answer"]

GoesOn == [request EXCEPT !.left = @ \ {Candidate},
               !.issues = IF request.kind = "runs"
                          THEN @ \cup {<<request.session, Candidate>>} ELSE @]

\* What cannot be loaded is an issue of the answer.
LoadInvalid ==
    /\ request.at = "load" /\ request.left # {}
    /\ ~Valid(request.session, Candidate)
    /\ Goes(GoesOn)

\* A session without a valid run is an issue of the answer.
NothingLeft ==
    /\ request.at = "load" /\ request.left = {}
    /\ Goes(IF request.kind = "sessions"
            THEN [request EXCEPT !.at = "pick", !.issues = @ \cup {<<request.session, 0>>}]
            ELSE [request EXCEPT !.at = "answer"])

\* resolve_supervisor_target loads the manifest that retained_coordination has
\* just loaded; by now it may be gone, and the command fails.
Reload ==
    /\ request.at = "reload"
    /\ \E x \in request.page :
          Goes(IF run[x] = "valid" THEN [request EXCEPT !.at = "answer"]
               ELSE [None EXCEPT !.at = "idle"])

Request ==
    \/ AskSessions \/ PickSession \/ LastSession \/ LoadValid \/ LoadInvalid
    \/ NothingLeft \/ Reload
    \/ \E s \in Sessions : AskRuns(s) \/ AskResolve(s)
    \/ \E S \in SUBSET Sessions : ScanRoot(S)
    \/ \E S \in SUBSET Runs : Scan(S)

Disk == \E s \in Sessions, r \in Runs :
            Begin(s, r) \/ Publish(s, r) \/ Damage(s, r) \/ Remove(s, r)

Next == Request \/ Disk

Spec == Init /\ [][Next]_vars

-----------------------------------------------------------------------------
Answered(kind) == request.at = "answer" /\ request.kind = kind
Steady(s) == {r \in Runs : <<s, r>> \in throughout}

\* An answer that does not call itself truncated misses no run that was there
\* all the time, and leaves no session with such a run unmentioned.
HonestPage ==
    /\ Answered("runs") /\ ~request.cut =>
           \A r \in Steady(request.session) : <<request.session, r>> \in request.page
    /\ Answered("sessions") /\ ~request.cut =>
           \A s \in Sessions : Steady(s) # {} =>
               \E r \in Runs \cup {0} : <<s, r>> \in request.page \cup request.issues

\* A listing shows newest valid runs: no run that was valid all the time is
\* passed over for an older one of its session.
NewestIsListed ==
    Answered("runs") \/ Answered("sessions") =>
        \A x \in request.page : \A r \in Steady(x[1]) :
            r > x[2] => <<x[1], r>> \in request.page

\* A command without a run id acts on no older run than the newest that was
\* valid all the time, and finds one if there is one.
ResolvedIsNewest ==
    Answered("resolve") =>
        \A r \in Steady(request.session) : \E x \in request.page : r <= x[2]
=============================================================================
