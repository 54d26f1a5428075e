----------------------------- MODULE SampleTest -----------------------------
(***************************************************************************)
(* The scenarios that both example apps run against the sample server      *)
(* (examples/internal/sampletest): one test goroutine drives the server,   *)
(* stubs the remote, and watches the table.  The server is SampleApp.      *)
(*                                                                         *)
(* One environment serves all the tests of a package, so the table lives   *)
(* through every round of go test -count, and so does a save that a        *)
(* scenario did not wait for.                                              *)
(***************************************************************************)
EXTENDS Naturals, Sequences

CONSTANTS
    Request,   \* see SampleApp
    Rounds,    \* how often the tests are run: go test -count
    LateTests  \* bound: how many tests, the first ones, may find a save too slow

ASSUME SampleTestAssumptions == Rounds \in Nat /\ LateTests \in Nat

VARIABLES
    at,        \* how many tests were begun
    step,      \* where the test goroutine is
    asked,     \* how many lookups of the test were made
    failed,    \* whether the last step of the goroutine failed a test
    req, save, rows, remote, dbOpen

User == {"alice", "bob"}
Key  == {"alpha", "isolation-key"}

App == INSTANCE SampleApp WITH Unlucky <- {}, MaxSaves <- 2 * Rounds

testVars == <<at, step, asked, failed>>
appVars  == <<req, save, rows, remote, dbOpen>>
vars     == <<testVars, appVars>>

\* A test stubs its key, saves it as alice, waits for the row, and then looks
\* the key up: as whom, and what it expects.
HappyPath ==
    [first |-> "reset", key |-> "alpha", lookups |-> <<[user |-> "alice", status |-> "ok", exact |-> TRUE]>>]

PerUserIsolation ==
    [first |-> "reset", key |-> "isolation-key",
     lookups |-> <<[user |-> "bob", status |-> "notFound", exact |-> FALSE],
                   [user |-> "alice", status |-> "ok", exact |-> FALSE]>>]

\* MissingToken, ExpiredToken, WrongAudience, BadSignature: to be refused.
BadToken == [first |-> "bad", key |-> "alpha", lookups |-> <<>>]

Tests   == <<HappyPath, BadToken, PerUserIsolation>>
Test(n) == Tests[((n - 1) % Len(Tests)) + 1]
Current == Test(at)
AllRun  == at > Rounds * Len(Tests)

Init ==
    /\ at = 1
    /\ step = Test(1).first
    /\ asked = 0
    /\ failed = FALSE
    /\ App!Init
    /\ dbOpen = TRUE

-----------------------------------------------------------------------------
\* The test goroutine.

GoTo(from, to) == ~AllRun /\ step = from /\ step' = to /\ failed' = FALSE

NextTest ==
    /\ at' = at + 1
    /\ step' = Test(at + 1).first
    /\ asked' = 0

\* resetWireMock, and stubLookup.
Reset ==
    /\ GoTo("reset", "stub")
    /\ remote' = [k \in Key |-> 0]
    /\ UNCHANGED <<at, asked, req, save, rows, dbOpen>>

StubLookup ==
    /\ GoTo("stub", "save")
    /\ remote' = [remote EXCEPT ![Current.key] = 1]
    /\ UNCHANGED <<at, asked, req, save, rows, dbOpen>>

PostSave(r) ==
    /\ GoTo("save", "accepted")
    /\ App!Accept(r, "save", "alice", Current.key)
    /\ UNCHANGED <<at, asked>>

PostBad(r) ==
    /\ GoTo("bad", "refused")
    /\ App!AcceptBad(r)
    /\ UNCHANGED <<at, asked>>

\* require: the test goes on, or ends here.
Require(ok) ==
    /\ failed' = ~ok
    /\ IF ok THEN step' = "poll" /\ UNCHANGED <<at, asked>> ELSE NextTest

CheckAccepted(r) ==
    /\ ~AllRun
    /\ step = "accepted"
    /\ App!Reply(r)
    /\ Require(req[r].status = "accepted")

CheckRefused(r) ==
    /\ ~AllRun
    /\ step = "refused"
    /\ App!Reply(r)
    /\ failed' = (req[r].status # "refused")
    /\ NextTest

\* The row the test waits for.
RowMatches ==
    LET f == rows[App!RowOf("alice", Current.key)] IN f # 0 /\ save[f].body = 1

Poll ==
    /\ GoTo("poll", "look")
    /\ RowMatches
    /\ UNCHANGED <<at, asked, appVars>>

UnderWay(f) == save[f].pc \in {"fetching", "storing"}

\* DBPollWait may be over at any time, also with the test's save in flight, but
\* for the bound on it.  Mutant: the poll goes on for ever.
NoBudget    == FALSE
BudgetSpent == UnderWay(Len(save)) => at <= LateTests

PollTimesOut ==
    /\ ~AllRun
    /\ step = "poll"
    /\ ~RowMatches
    /\ BudgetSpent
    /\ failed' = TRUE
    /\ NextTest
    /\ UNCHANGED appVars

GetLookup(r) ==
    /\ GoTo("look", "told")
    /\ App!Accept(r, "lookup", Current.lookups[asked + 1].user, Current.key)
    /\ asked' = asked + 1
    /\ UNCHANGED at

AsExpected(answer, want) ==
    /\ answer.status = want.status
    /\ want.exact => save[answer.save].body = 1

\* assert: the test goes on in any case.
CheckLookup(r) ==
    /\ ~AllRun
    /\ step = "told"
    /\ App!Reply(r)
    /\ failed' = ~AsExpected(req[r], Current.lookups[asked])
    /\ IF asked < Len(Current.lookups)
         THEN step' = "look" /\ UNCHANGED <<at, asked>>
         ELSE NextTest

Goroutine ==
    \/ Reset \/ StubLookup \/ Poll \/ PollTimesOut
    \/ \E r \in Request :
          \/ PostSave(r) \/ CheckAccepted(r)
          \/ PostBad(r) \/ CheckRefused(r)
          \/ GetLookup(r) \/ CheckLookup(r)

-----------------------------------------------------------------------------
\* The server.

Handler(r) ==
    /\ App!Refuse(r) \/ App!HandleSave(r) \/ App!HandleLookup(r)
    /\ UNCHANGED testVars

Background(f) == App!Background(f) /\ UNCHANGED testVars

Next ==
    \/ Goroutine
    \/ \E r \in Request : Handler(r)
    \/ \E f \in 1 .. 2 * Rounds : f \in App!Save /\ Background(f)

Spec == Init /\ [][Next]_vars

\* The server, its remote and its database answer.
Fairness ==
    /\ WF_vars(Goroutine)
    /\ \A r \in Request : WF_vars(Handler(r))
    /\ \A f \in 1 .. 2 * Rounds : WF_vars(f \in App!Save /\ Background(f))

FairSpec == Spec /\ Fairness

-----------------------------------------------------------------------------
\* Properties.

\* A save of the same key was still under way when save f was accepted.
Disturbed(f) ==
    \E g \in App!Save : g < f /\ save[g].key = save[f].key /\ g \notin save[f].after

\* The scenarios share a server, a remote and a table, but a test fails only if
\* a save was late: its own, when the poll gave up on it, or that of an earlier
\* round, which the row of a round before had made the poll overlook and which
\* may meet a remote that was reset meanwhile, and overwrite the row under the
\* test's feet.  A save that was late for a test harms no test of another key.
FailsOnlyIfLate ==
    [][failed' =>
        /\ step \in {"poll", "told"}
        /\ \/ Disturbed(Len(save))
           \/ step = "poll" /\ UnderWay(Len(save))]_<<at, step>>

\* Every test comes to an end.
TestsEnd == <>AllRun
=============================================================================
