---------------------------- MODULE ProtocolSync ----------------------------
(***************************************************************************)
(* The sync-protocol workflow and the generator it runs, beside an         *)
(* upstream repository that moves and people who commit to main.  The two  *)
(* jobs of a run work on checkouts of their own: sync-codes generates two  *)
(* tables, tests and pushes them; detect-handler-changes hashes the        *)
(* sources that the handlers are ported from and asks for a review when    *)
(* they differ from the hashes on main.                                    *)
(*                                                                         *)
(* main is [tables, baseline, uses]: the two generated tables, the stored  *)
(* hashes and the names that the handlers use.                             *)
(***************************************************************************)
EXTENDS Codegen

CONSTANTS
  Upstream,     \* the versions of the upstream repository, in order
  Uses,         \* what the handlers may use, by the changes people make
  MaxFailures,  \* how many fetches fail (a bound)
  MaxCommits,   \* how many commits people make (a bound)
  None

(* A version is [files, sources]: two C# files, and the hashes of the      *)
(* watched sources.                                                        *)
ASSUME UpstreamAssumption ==
  /\ MaxFailures \in Nat /\ MaxCommits \in Nat
  /\ Len(Upstream) \in Nat \ {0} /\ DOMAIN Upstream = 1 .. Len(Upstream)
  /\ \A n \in DOMAIN Upstream :
       /\ Len(Upstream[n].files) = 2 /\ Upstream[n].sources \in Seq(STRING)
       /\ \A i \in 1 .. 2 : Upstream[n].files[i].lines \in Seq(Line)
       /\ Len(Upstream[n].sources) = Len(Upstream[1].sources)
  /\ Len(Upstream[1].sources) > 0

VARIABLES
  head,         \* the upstream version that is current
  main,         \* the main branch
  review,       \* the hashes in the open pull request, or None
  pc,           \* where each job of the run is
  base,         \* what each job reads of main in its checkout, or None
  moved,        \* whether main has got a commit since the checkout
  tables,       \* the tables that sync-codes has generated
  failed,       \* whether one of them could not be
  hashes,       \* the hashes that detect-handler-changes has taken
  failures,     \* how many fetches have failed
  commits       \* how many commits people have made

world == <<head, failures, commits>>
sync == <<tables, failed>>
vars == <<world, main, review, pc, base, moved, sync, hashes>>

Job == {"sync", "detect"}
Current == Upstream[head]

(* What the generator and what the C# compiler make of each version.       *)
Generated == [n \in DOMAIN Upstream |->
               [i \in 1 .. 2 |-> Members(Upstream[n].files[i])]]
Numbered == [n \in DOMAIN Upstream |->
               [i \in 1 .. 2 |-> CSharp(Upstream[n].files[i])]]
Generable == [n \in DOMAIN Upstream |->
               [i \in 1 .. 2 |-> Generates(Upstream[n].files[i])]]

(* go build and go test.                                                   *)
Builds(ts, uses) ==
  (\A i \in DOMAIN ts : Compiles(ts[i])) /\ uses \subseteq Named(ts[1])

(* The tables that can be on main, or in a checkout.                       *)
Table(i) == {Generated[n][i] : n \in DOMAIN Upstream}
Tables ==
  {[i \in 1 .. 2 |-> IF i = 1 THEN s ELSE t] : s \in Table(1), t \in Table(2)}

(* The two tables in the repository build with its handlers.               *)
ASSUME StartAssumption ==
  /\ \E u \in Uses : u \subseteq Named(Generated[1][1])
  /\ \A i \in 1 .. 2 : Compiles(Generated[1][i])
  /\ \A ts \in Tables, u \in Uses : [tables |-> ts, uses |-> u] # None

Init ==
  /\ head = 1
  /\ \E baseline \in {None, Current.sources} :
       main = [ tables |-> Generated[head], baseline |-> baseline,
                uses |-> CHOOSE u \in Uses : u \subseteq Named(Generated[head][1]) ]
  /\ review = None
  /\ pc = [j \in Job |-> "done"]
  /\ base = [j \in Job |-> None]
  /\ moved = [j \in Job |-> FALSE]
  /\ tables = <<>>
  /\ failed = FALSE
  /\ hashes = <<>>
  /\ failures = 0
  /\ commits = 0

-----------------------------------------------------------------------------
Goes(j, a, b) == pc[j] = a /\ pc' = [pc EXCEPT ![j] = b]

(* The job ends, and its checkout is gone with the runner.                 *)
Ends(j) ==
  /\ pc' = [pc EXCEPT ![j] = "done"]
  /\ base' = [base EXCEPT ![j] = None]
  /\ IF j = "sync" THEN tables' = <<>> /\ failed' = FALSE /\ UNCHANGED hashes
                   ELSE hashes' = <<>> /\ UNCHANGED sync

(* A commit on main; it is not in the checkouts the jobs work on.          *)
Commits(content) ==
  main' = content /\ moved' = [j \in Job |-> base'[j] # None]

(* A job's last step pushes its own commit, unless main has moved.         *)
Pushes(j, content) ==
  /\ Ends(j)
  /\ IF moved[j] THEN main' = main /\ moved' = [moved EXCEPT ![j] = FALSE]
                 ELSE Commits(content)

(* The schedule starts a run; concurrency keeps it from overlapping the    *)
(* last one.                                                               *)
StartRun ==
  /\ \A j \in Job : pc[j] = "done"
  /\ pc' = [j \in Job |-> "checkout"]
  /\ UNCHANGED <<world, main, review, base, moved, sync, hashes>>

Checkout(j) ==
  /\ Goes(j, "checkout", IF j = "sync" THEN "generate" ELSE "hash")
  /\ base' = [base EXCEPT ![j] = IF j = "sync"
                                 THEN [tables |-> main.tables, uses |-> main.uses]
                                 ELSE [baseline |-> main.baseline]]
  /\ UNCHANGED <<world, main, review, moved, sync, hashes>>

(* A fetch may fail.                                                       *)
Fetched(ok) ==
  /\ ok \/ failures < MaxFailures
  /\ failures' = failures + IF ok THEN 0 ELSE 1
  /\ UNCHANGED <<head, commits>>

(* The generator goes on with its second source after an error in its      *)
(* first one.                                                              *)
Generate(ok) ==
  LET i == Len(tables) + 1
      generated == ok /\ Generable[head][i]
  IN /\ Goes("sync", "generate", IF i = 2 THEN "generated" ELSE "generate")
     /\ Fetched(ok)
     /\ tables' = Append(tables, IF generated THEN Generated[head][i]
                                 ELSE base["sync"].tables[i])
     /\ failed' = (failed \/ ~ generated)
     /\ UNCHANGED <<main, review, base, moved, hashes>>

(* Exit status 1, no difference to the checkout or a failing test end the  *)
(* job.                                                                    *)
Differs_FirstTable == tables[1] # base["sync"].tables[1]

Differs == tables # base["sync"].tables

Test ==
  /\ pc["sync"] = "generated"
  /\ IF ~ failed /\ Differs /\ Builds(tables, base["sync"].uses)
     THEN /\ pc' = [pc EXCEPT !["sync"] = "push"]
          /\ UNCHANGED <<base, moved, sync, hashes>>
     ELSE Ends("sync") /\ moved' = [moved EXCEPT !["sync"] = FALSE]
  /\ UNCHANGED <<world, main, review>>

(* git push is refused if main has moved.                                  *)
Push_Forced ==
  /\ pc["sync"] = "push"
  /\ Ends("sync")
  /\ Commits([main EXCEPT !.tables = tables])
  /\ UNCHANGED <<world, review>>

Push ==
  /\ pc["sync"] = "push"
  /\ Pushes("sync", [main EXCEPT !.tables = tables])
  /\ UNCHANGED <<world, review>>

(* curl: a source that cannot be fetched has the hash MISSING.             *)
Hash(ok) ==
  LET i == Len(hashes) + 1
      n == Len(Current.sources)
  IN /\ Goes("detect", "hash", IF i = n THEN "compare" ELSE "hash")
     /\ Fetched(ok)
     /\ hashes' = Append(hashes, IF ok THEN Current.sources[i] ELSE "MISSING")
     /\ UNCHANGED <<main, review, base, moved, sync>>

(* Without a stored baseline this is the first run; with other hashes than *)
(* the stored ones it asks for a review.                                   *)
Compare ==
  LET baseline == base["detect"].baseline
  IN /\ pc["detect"] = "compare"
     /\ IF baseline = hashes
        THEN Ends("detect") /\ moved' = [moved EXCEPT !["detect"] = FALSE]
        ELSE /\ pc' = [pc EXCEPT !["detect"] = IF baseline = None THEN "first"
                                                               ELSE "open"]
             /\ UNCHANGED <<base, moved, sync, hashes>>
     /\ UNCHANGED <<world, main, review>>

(* The one branch for reviews gets the new hashes, and a pull request.     *)
OpenReview_KeepsFirst ==
  /\ pc["detect"] = "open"
  /\ review' = IF review = None THEN hashes ELSE review
  /\ Ends("detect") /\ moved' = [moved EXCEPT !["detect"] = FALSE]
  /\ UNCHANGED <<world, main>>

OpenReview ==
  /\ pc["detect"] = "open"
  /\ review' = hashes
  /\ Ends("detect") /\ moved' = [moved EXCEPT !["detect"] = FALSE]
  /\ UNCHANGED <<world, main>>

PushBaseline ==
  /\ pc["detect"] = "first"
  /\ Pushes("detect", [main EXCEPT !.baseline = hashes])
  /\ UNCHANGED <<world, review>>

-----------------------------------------------------------------------------
(* The others.                                                             *)
Advance ==
  /\ head < Len(Upstream)
  /\ head' = head + 1
  /\ UNCHANGED <<main, review, pc, base, moved, sync, hashes, failures, commits>>

Merge ==
  /\ review # None
  /\ review' = None
  /\ UNCHANGED <<world, pc, base, sync, hashes>>
  /\ Commits([main EXCEPT !.baseline = review])

HumanCommit(uses) ==
  /\ commits < MaxCommits /\ Builds(main.tables, uses)
  /\ commits' = commits + 1
  /\ UNCHANGED <<head, failures, review, pc, base, sync, hashes>>
  /\ Commits([main EXCEPT !.uses = uses])

SyncStep ==
  Checkout("sync") \/ (\E ok \in BOOLEAN : Generate(ok)) \/ Test \/ Push

DetectStep ==
  \/ Checkout("detect") \/ \E ok \in BOOLEAN : Hash(ok)
  \/ Compare \/ OpenReview \/ PushBaseline

Next ==
  \/ StartRun \/ SyncStep \/ DetectStep
  \/ Advance \/ Merge \/ \E uses \in Uses : HumanCommit(uses)

Spec == Init /\ [][Next]_vars

(* The schedule starts a run every day, and its jobs come to an end.       *)
Fairness == WF_vars(StartRun) /\ WF_vars(SyncStep) /\ WF_vars(DetectStep)

FairSpec == Spec /\ Fairness

-----------------------------------------------------------------------------
(* Properties.                                                             *)

Hashes ==
  {"MISSING"} \cup
  {Upstream[n].sources[i] : n \in DOMAIN Upstream, i \in 1 .. Len(Upstream[1].sources)}
Baseline == {None} \cup Seq(Hashes)

TypeOK ==
  /\ head \in DOMAIN Upstream /\ failures \in Nat /\ commits \in Nat
  /\ main \in [tables : Tables, baseline : Baseline, uses : Uses]
  /\ review \in Baseline
  /\ pc \in [Job -> {"done", "checkout", "generate", "generated", "push",
                     "hash", "compare", "first", "open"}]
  /\ base \in [Job -> {None} \cup [tables : Tables, uses : Uses] \cup [baseline : Baseline]]
  /\ moved \in [Job -> BOOLEAN]
  /\ tables \in {<<>>} \cup {<<t>> : t \in Table(1)} \cup Tables
  /\ failed \in BOOLEAN
  /\ hashes \in Seq(Hashes)

(* "They are safe to apply without review" (sync-protocol.yml:4-6): what   *)
(* is pushed without one was tested with what is on main, although people  *)
(* commit while the job runs.                                              *)
MainBuilds == Builds(main.tables, main.uses)

(* Each table on main has the numbers that the C# compiler gives to the    *)
(* members of one upstream version of its file.                            *)
NumberedAsUpstream ==
  \A i \in 1 .. 2 : \E n \in 1 .. head :
    Numbers(main.tables[i]) = Numbered[n][i]

(* Once upstream and people rest and fetches succeed, main has the current *)
(* tables: a lost race or a failed fetch is made good.  Unless a file has  *)
(* no enum any more, a name or a number twice, or a comment that is cut    *)
(* within a character, or a used name is gone: then both tables stay.      *)
Usable(n) ==
  \A i \in 1 .. 2 :
    /\ Generable[n][i] /\ Cuttable(Upstream[n].files[i])
    /\ \A j, k \in DOMAIN Numbered[n][i] : j # k =>
         /\ Numbered[n][i][j].name # Numbered[n][i][k].name
         /\ Numbered[n][i][j].value # Numbered[n][i][k].value
UsableVersions == {n \in DOMAIN Upstream : Usable(n)}

TablesFollow ==
  <>[]( \/ \A i \in 1 .. 2 : Numbers(main.tables[i]) = Numbered[head][i]
        \/ head \notin UsableVersions
        \/ ~ (main.uses \subseteq Named(Numbered[head][1])) )

(* And the current handler sources are those on main, or they are under    *)
(* review: no change of them goes unseen, whatever people merge when.      *)
ChangesSeen == <>[](Current.sources \in {main.baseline, review})
=============================================================================
