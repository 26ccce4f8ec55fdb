------------------------ MODULE ProtocolSyncProofs ------------------------
(***************************************************************************)
(* The main branch of ProtocolSync always builds, and its tables have the  *)
(* numbers of upstream's enums, for any upstream versions, handlers,       *)
(* failures and commits.                                                   *)
(***************************************************************************)
EXTENDS ProtocolSync, DataLemmas, TLAPS

(* The job sync-codes: what its checkout holds, that it knows the handlers *)
(* on main unless main has moved, and that it pushes what it tested.       *)
SyncOK ==
  /\ pc["sync"] \in {"done", "checkout", "generate", "generated", "push"}
  /\ base["sync"] = None <=> pc["sync"] \in {"done", "checkout"}
  /\ base["sync"] # None => base["sync"] \in [tables : Tables, uses : Uses]
  /\ base["sync"] # None /\ ~ moved["sync"] => base["sync"].uses = main.uses
  /\ pc["sync"] \in {"done", "checkout"} => tables = <<>>
  /\ pc["sync"] = "generate" => tables \in {<<>>} \cup {<<t>> : t \in Table(1)}
  /\ pc["sync"] \in {"generated", "push"} => tables \in Tables
  /\ pc["sync"] = "push" => Builds(tables, base["sync"].uses)

(* The job detect-handler-changes: it has not hashed every source yet.     *)
DetectOK ==
  /\ pc["detect"] \in {"done", "checkout", "hash", "compare", "first", "open"}
  /\ pc["detect"] \in {"done", "checkout"} => hashes = <<>>
  /\ pc["detect"] = "hash" => Len(hashes) < Len(Upstream[1].sources)

IInv == TypeOK /\ SyncOK /\ DetectOK /\ MainBuilds

-----------------------------------------------------------------------------
(* Appended to one table, another one makes a pair.                        *)
LEMMA TwoTables ==
  ASSUME NEW s, NEW t
  PROVE  Append(<<s>>, t) = [i \in 1 .. 2 |-> IF i = 1 THEN s ELSE t]
<1>1. <<s>> \in Seq({s, t}) /\ Len(<<s>>) = 1
  OBVIOUS
<1> QED
  BY <1>1, AppendProperties

LEMMA SourcesTyped == \A n \in DOMAIN Upstream : Upstream[n].sources \in Seq(Hashes)
<1>1. TAKE n \in DOMAIN Upstream
<1> DEFINE s == Upstream[n].sources
<1>2. s \in Seq(STRING) /\ Len(s) = Len(Upstream[1].sources) /\ Len(s) \in Nat
  BY UpstreamAssumption, LenProperties
<1>3. \A i \in 1 .. Len(s) : s[i] \in Hashes
  BY <1>2 DEF Hashes
<1> QED
  BY <1>2, <1>3, SeqDef

LEMMA InvInit ==
  ASSUME Init PROVE IInv
<1>1. head = 1 /\ 1 \in DOMAIN Upstream
  BY UpstreamAssumption DEF Init
<1>2. PICK baseline \in {None, Current.sources} :
        main = [ tables |-> Generated[head], baseline |-> baseline,
                 uses |-> CHOOSE u \in Uses : u \subseteq Named(Generated[head][1]) ]
  BY DEF Init
<1>3. baseline \in Baseline
  BY <1>1, SourcesTyped DEF Baseline, Current
<1>4. main.uses \in Uses /\ main.uses \subseteq Named(main.tables[1])
  BY <1>1, <1>2, StartAssumption
<1>5. main.tables \in Tables /\ \A i \in DOMAIN main.tables : Compiles(main.tables[i])
  BY <1>1, <1>2, StartAssumption DEF Tables, Table, Generated
<1>6. MainBuilds
  BY <1>4, <1>5 DEF MainBuilds, Builds
<1>7. TypeOK
  BY <1>1, <1>2, <1>3, <1>4, <1>5, EmptySeq DEF Init, TypeOK, Baseline
<1> QED
  BY <1>6, <1>7 DEF IInv, Init, SyncOK, DetectOK, Job
-----------------------------------------------------------------------------
(* sync-codes.                                                             *)
LEMMA SyncSteps ==
  ASSUME IInv, SyncStep PROVE IInv'
<1> USE DEF IInv
<1>1. ASSUME Checkout("sync") PROVE IInv'
  <2> DEFINE copy == [tables |-> main.tables, uses |-> main.uses]
  <2>1. /\ pc["sync"] = "checkout" /\ pc' = [pc EXCEPT !["sync"] = "generate"]
        /\ base' = [base EXCEPT !["sync"] = copy]
        /\ UNCHANGED <<world, main, review, moved, sync, hashes>>
    BY <1>1 DEF Checkout, Goes
  <2>2. copy \in [tables : Tables, uses : Uses] /\ copy # None /\ copy.uses = main.uses
    BY StartAssumption DEF TypeOK
  <2> HIDE DEF copy
  <2>3. TypeOK'
    BY <2>1, <2>2 DEF TypeOK, Job, world, sync
  <2>4. SyncOK'
    BY <2>1, <2>2 DEF TypeOK, SyncOK, Job, sync
  <2> QED
    BY <2>1, <2>3, <2>4 DEF TypeOK, DetectOK, MainBuilds, Job
<1>2. ASSUME NEW ok \in BOOLEAN, Generate(ok) PROVE IInv'
  <2> DEFINE i == Len(tables) + 1
             t == IF ok /\ Generable[head][i] THEN Generated[head][i]
                  ELSE base["sync"].tables[i]
  <2>1. /\ pc["sync"] = "generate"
        /\ pc' = [pc EXCEPT !["sync"] = IF i = 2 THEN "generated" ELSE "generate"]
        /\ tables' = Append(tables, t)
        /\ failed' \in BOOLEAN /\ failures' \in Nat
        /\ UNCHANGED <<main, review, base, moved, hashes, head, commits>>
    BY <1>2 DEF Generate, Goes, Fetched, TypeOK
  <2>2. base["sync"].tables \in Tables
    BY <2>1 DEF SyncOK
  <2>3. CASE tables = <<>>
    <3>1. i = 1
      BY <2>3
    <3>2. t \in Table(1)
      BY <2>2, <3>1 DEF Tables, Table, TypeOK
    <3> HIDE DEF t
    <3>3. tables' = <<t>> /\ pc' = [pc EXCEPT !["sync"] = "generate"]
      BY <2>1, <2>3, <3>1
    <3>4. TypeOK' /\ SyncOK'
      BY <2>1, <3>2, <3>3 DEF TypeOK, SyncOK, Job
    <3> QED
      BY <2>1, <3>4 DEF TypeOK, DetectOK, MainBuilds, Job
  <2>4. CASE tables # <<>>
    <3>1. PICK u \in Table(1) : tables = <<u>>
      BY <2>1, <2>4 DEF SyncOK
    <3>2. i = 2
      BY <3>1
    <3>3. t \in Table(2)
      BY <2>2, <3>2 DEF Tables, Table, TypeOK
    <3> HIDE DEF t
    <3>4. tables' = Append(<<u>>, t) /\ pc' = [pc EXCEPT !["sync"] = "generated"]
      BY <2>1, <3>1, <3>2
    <3>5. tables' \in Tables
      BY <3>1, <3>3, <3>4, TwoTables DEF Tables
    <3>6. TypeOK' /\ SyncOK'
      BY <2>1, <3>4, <3>5 DEF TypeOK, SyncOK, Job
    <3> QED
      BY <2>1, <3>6 DEF TypeOK, DetectOK, MainBuilds, Job
  <2> QED
    BY <2>3, <2>4
<1>3. ASSUME Test PROVE IInv'
  <2>1. /\ pc["sync"] = "generated" /\ UNCHANGED <<world, main, review, hashes>>
    BY <1>3 DEF Test, Ends
  <2>2. CASE ~ failed /\ Differs /\ Builds(tables, base["sync"].uses)
    <3>1. pc' = [pc EXCEPT !["sync"] = "push"] /\ UNCHANGED <<base, moved, sync>>
      BY <1>3, <2>2 DEF Test
    <3>2. TypeOK' /\ SyncOK'
      BY <2>1, <2>2, <3>1 DEF TypeOK, SyncOK, Job, world, sync
    <3> QED
      BY <2>1, <3>1, <3>2 DEF TypeOK, DetectOK, MainBuilds, Job
  <2>3. CASE ~ (~ failed /\ Differs /\ Builds(tables, base["sync"].uses))
    <3>1. /\ pc' = [pc EXCEPT !["sync"] = "done"] /\ base' = [base EXCEPT !["sync"] = None]
          /\ tables' = <<>> /\ failed' = FALSE /\ moved' = [moved EXCEPT !["sync"] = FALSE]
      BY <1>3, <2>3 DEF Test, Ends
    <3>2. TypeOK' /\ SyncOK'
      BY <2>1, <3>1 DEF TypeOK, SyncOK, Job, world
    <3> QED
      BY <2>1, <3>1, <3>2 DEF TypeOK, DetectOK, MainBuilds, Job
  <2> QED
    BY <2>2, <2>3
<1>4. ASSUME Push PROVE IInv'
  <2>1. /\ pc["sync"] = "push" /\ UNCHANGED <<world, review, hashes>>
        /\ pc' = [pc EXCEPT !["sync"] = "done"] /\ base' = [base EXCEPT !["sync"] = None]
        /\ tables' = <<>> /\ failed' = FALSE
    BY <1>4 DEF Push, Pushes, Ends
  <2>2. /\ main' \in [tables : Tables, baseline : Baseline, uses : Uses]
        /\ moved' \in [Job -> BOOLEAN]
        /\ MainBuilds'
    <3>1. CASE moved["sync"]
      BY <1>4, <3>1 DEF Push, Pushes, TypeOK, MainBuilds
    <3>2. CASE ~ moved["sync"]
      <4>1. /\ main' = [main EXCEPT !.tables = tables]
            /\ moved' = [j \in Job |-> base'[j] # None]
        BY <1>4, <3>2 DEF Push, Pushes, Commits
      <4>2. tables \in Tables /\ Builds(tables, main.uses)
        BY <2>1, <3>2 DEF SyncOK
      <4> QED
        BY <4>1, <4>2 DEF TypeOK, MainBuilds
    <3> QED
      BY <3>1, <3>2
  <2>3. TypeOK' /\ SyncOK'
    BY <2>1, <2>2 DEF TypeOK, SyncOK, Job, world
  <2> QED
    BY <2>1, <2>2, <2>3 DEF TypeOK, DetectOK, Job
<1> QED
  BY <1>1, <1>2, <1>3, <1>4 DEF SyncStep

-----------------------------------------------------------------------------
(* The other job and the others.                                           *)

(* They leave what sync-codes has alone, and a commit that changes main    *)
(* behind its checkout is noticed.                                         *)
LEMMA SyncStays ==
  ASSUME SyncOK, UNCHANGED tables, pc'["sync"] = pc["sync"], base'["sync"] = base["sync"],
         base["sync"] # None /\ ~ moved'["sync"] => ~ moved["sync"] /\ main'.uses = main.uses
  PROVE  SyncOK'
BY DEF SyncOK

LEMMA DetectSteps ==
  ASSUME IInv, DetectStep PROVE IInv'
<1> USE DEF IInv
<1>1. ASSUME Checkout("detect") PROVE IInv'
  <2> DEFINE copy == [baseline |-> main.baseline]
  <2>1. /\ pc["detect"] = "checkout" /\ pc' = [pc EXCEPT !["detect"] = "hash"]
        /\ base' = [base EXCEPT !["detect"] = copy]
        /\ UNCHANGED <<world, main, review, moved, sync, hashes>>
    BY <1>1 DEF Checkout, Goes
  <2>2. copy \in [baseline : Baseline]
    BY DEF TypeOK
  <2> HIDE DEF copy
  <2>3. TypeOK'
    BY <2>1, <2>2 DEF TypeOK, Job, world, sync
  <2>4. SyncOK'
    BY <2>1, SyncStays DEF TypeOK, Job, sync
  <2>5. DetectOK'
    BY <2>1, UpstreamAssumption DEF TypeOK, DetectOK, Job
  <2> QED
    BY <2>1, <2>3, <2>4, <2>5 DEF MainBuilds
<1>2. ASSUME NEW ok \in BOOLEAN, Hash(ok) PROVE IInv'
  <2> DEFINE i == Len(hashes) + 1
             n == Len(Current.sources)
             h == IF ok THEN Current.sources[i] ELSE "MISSING"
  <2>1. /\ pc["detect"] = "hash"
        /\ pc' = [pc EXCEPT !["detect"] = IF i = n THEN "compare" ELSE "hash"]
        /\ hashes' = Append(hashes, h) /\ failures' \in Nat
        /\ UNCHANGED <<main, review, base, moved, sync, head, commits>>
    BY <1>2 DEF Hash, Goes, Fetched, TypeOK
  <2>2. /\ n = Len(Upstream[1].sources) /\ Current.sources \in Seq(Hashes)
        /\ hashes \in Seq(Hashes) /\ Len(hashes) < n
    BY <2>1, UpstreamAssumption, SourcesTyped DEF Current, TypeOK, DetectOK
  <2>3. i \in 1 .. n /\ Len(hashes) \in Nat /\ n \in Nat
    BY <2>2, LenProperties
  <2>4. h \in Hashes
    <3>1. Current.sources[i] \in Hashes
      BY <2>2, <2>3, ElementOfSeq
    <3> QED
      BY <3>1 DEF Hashes
  <2> HIDE DEF h
  <2>5. hashes' \in Seq(Hashes) /\ Len(hashes') = i
    BY <2>1, <2>2, <2>4, AppendProperties
  <2>6. TypeOK'
    BY <2>1, <2>5 DEF TypeOK, Job, sync
  <2>7. DetectOK'
    BY <2>1, <2>2, <2>3, <2>5 DEF TypeOK, DetectOK, Job
  <2> QED
    BY <2>1, <2>6, <2>7, SyncStays DEF TypeOK, MainBuilds, Job, sync
<1>3. ASSUME Compare \/ OpenReview PROVE IInv'
  <2>1. review' \in {review, hashes} /\ UNCHANGED <<world, main, sync>>
    BY <1>3 DEF Compare, OpenReview, Ends
  <2>2. CASE /\ pc' = [pc EXCEPT !["detect"] = "done"]
             /\ base' = [base EXCEPT !["detect"] = None] /\ hashes' = <<>>
             /\ moved' = [moved EXCEPT !["detect"] = FALSE]
    <3>1. TypeOK'
      BY <2>1, <2>2, EmptySeq DEF TypeOK, Baseline, Job, world, sync
    <3>2. SyncOK'
      BY <2>1, <2>2, SyncStays DEF TypeOK, Job, sync
    <3> QED
      BY <2>1, <2>2, <3>1, <3>2 DEF TypeOK, DetectOK, MainBuilds, Job
  <2>3. CASE /\ \E to \in {"first", "open"} : pc' = [pc EXCEPT !["detect"] = to]
             /\ UNCHANGED <<base, moved, hashes>>
    <3>1. PICK to \in {"first", "open"} : pc' = [pc EXCEPT !["detect"] = to]
      BY <2>3
    <3>2. TypeOK'
      BY <2>1, <2>3, <3>1 DEF TypeOK, Baseline, Job, world, sync
    <3>3. SyncOK'
      BY <2>1, <2>3, <3>1, SyncStays DEF TypeOK, Job, sync
    <3> QED
      BY <2>1, <2>3, <3>1, <3>2, <3>3 DEF TypeOK, DetectOK, MainBuilds, Job
  <2> QED
    BY <1>3, <2>2, <2>3 DEF Compare, OpenReview, Ends
<1>4. ASSUME PushBaseline PROVE IInv'
  <2>1. /\ pc' = [pc EXCEPT !["detect"] = "done"] /\ base' = [base EXCEPT !["detect"] = None]
        /\ hashes' = <<>> /\ UNCHANGED <<world, review, sync>>
    BY <1>4 DEF PushBaseline, Pushes, Ends
  <2>2. /\ main' \in {main, [main EXCEPT !.baseline = hashes]}
        /\ \/ moved' = [moved EXCEPT !["detect"] = FALSE]
           \/ moved' = [j \in Job |-> base'[j] # None]
    BY <1>4 DEF PushBaseline, Pushes, Commits
  <2>3. /\ main' \in [tables : Tables, baseline : Baseline, uses : Uses]
        /\ main'.tables = main.tables /\ main'.uses = main.uses
    BY <2>2 DEF TypeOK, Baseline
  <2>4. TypeOK'
    BY <2>1, <2>2, <2>3, EmptySeq DEF TypeOK, Job, world, sync
  <2>5. SyncOK'
    BY <2>1, <2>2, <2>3, SyncStays DEF TypeOK, Job, sync
  <2> QED
    BY <2>1, <2>3, <2>4, <2>5 DEF TypeOK, DetectOK, MainBuilds, Job
<1> QED
  BY <1>1, <1>2, <1>3, <1>4 DEF DetectStep

LEMMA OtherSteps ==
  ASSUME IInv, StartRun \/ Advance \/ Merge \/ (\E uses \in Uses : HumanCommit(uses))
               \/ UNCHANGED vars
  PROVE  IInv'
<1> USE DEF IInv
<1>1. ASSUME StartRun PROVE IInv'
  <2>1. /\ \A j \in Job : pc[j] = "done"
        /\ pc' = [j \in Job |-> "checkout"]
        /\ UNCHANGED <<world, main, review, base, moved, sync, hashes>>
    BY <1>1 DEF StartRun
  <2>2. TypeOK'
    BY <2>1 DEF TypeOK, world, sync
  <2>3. SyncOK' /\ DetectOK'
    BY <2>1 DEF TypeOK, SyncOK, DetectOK, Job, sync
  <2> QED
    BY <2>1, <2>2, <2>3 DEF MainBuilds
<1>2. ASSUME Advance PROVE IInv'
  <2>1. head' \in DOMAIN Upstream
    BY <1>2, UpstreamAssumption DEF Advance, TypeOK
  <2>2. UNCHANGED <<main, review, pc, base, moved, sync, hashes, failures, commits>>
    BY <1>2 DEF Advance
  <2>3. TypeOK'
    BY <2>1, <2>2 DEF TypeOK, sync
  <2> QED
    BY <2>2, <2>3 DEF SyncOK, DetectOK, MainBuilds, sync
<1>3. ASSUME NEW content \in [tables : {main.tables}, baseline : Baseline, uses : Uses],
             Builds(main.tables, content.uses), Commits(content),
             review' \in Baseline, commits' \in Nat, failures' = failures, head' = head,
             UNCHANGED <<pc, base, sync, hashes>>
      PROVE  IInv'
  <2>1. main' = content /\ moved' = [j \in Job |-> base[j] # None]
    BY <1>3 DEF Commits
  <2>2. TypeOK'
    BY <1>3, <2>1 DEF TypeOK, sync
  <2>3. SyncOK'
    BY <1>3, <2>1, SyncStays DEF sync, Job
  <2> QED
    BY <1>3, <2>1, <2>2, <2>3 DEF DetectOK, MainBuilds
<1>4. ASSUME Merge PROVE IInv'
  <2>1. [main EXCEPT !.baseline = review] \in
          [tables : {main.tables}, baseline : Baseline, uses : {main.uses}]
    BY DEF TypeOK
  <2> QED
    BY <1>3, <1>4, <2>1 DEF Merge, MainBuilds, world, TypeOK, Baseline
<1>5. ASSUME NEW uses \in Uses, HumanCommit(uses) PROVE IInv'
  <2>1. /\ [main EXCEPT !.uses = uses] \in
             [tables : {main.tables}, baseline : Baseline, uses : Uses]
        /\ [main EXCEPT !.uses = uses].uses = uses
    BY DEF TypeOK
  <2> QED
    BY <1>3, <1>5, <2>1 DEF HumanCommit, TypeOK
<1>6. ASSUME UNCHANGED vars PROVE IInv'
  BY <1>6 DEF vars, world, sync, TypeOK, SyncOK, DetectOK, MainBuilds
<1> QED
  BY <1>1, <1>2, <1>4, <1>5, <1>6

LEMMA InvAlways == Spec => []IInv
<1>1. Init => IInv
  BY InvInit
<1>2. IInv /\ [Next]_vars => IInv'
  BY SyncSteps, DetectSteps, OtherSteps DEF Next
<1> QED
  BY <1>1, <1>2, PTL DEF Spec

-----------------------------------------------------------------------------
(* The theorems.                                                           *)

(* Every variable keeps to its values: the tables on main are always two   *)
(* that the generator made of upstream's files.                            *)
THEOREM TypeCorrect == Spec => []TypeOK
BY InvAlways, PTL DEF IInv

(* main builds after every push, merge and commit, although sync-codes     *)
(* tests its tables with a checkout that may be behind: for any versions,  *)
(* handlers, failing fetches and commits, if it builds at first.           *)
THEOREM MainAlwaysBuilds == Spec => []MainBuilds
BY InvAlways, PTL DEF IInv

-----------------------------------------------------------------------------
(* Every table is one that was generated from an upstream version, and the *)
(* whole of it.                                                            *)
Fresh(t, i) == \E n \in 1 .. head : t = Generated[n][i]

Whole(ts) == \A i \in 1 .. 2 : Fresh(ts[i], i)

FromUpstream ==
  /\ Whole(main.tables)
  /\ base["sync"] # None => Whole(base["sync"].tables)
  /\ \A i \in DOMAIN tables : Fresh(tables[i], i)

(* It is enough to look at what a step has written.                        *)
LEMMA FromUpstreamStays ==
  ASSUME TypeOK, head' \in {head, head + 1}, Whole(main'.tables),
         base'["sync"] # None => Whole(base'["sync"].tables),
         \A i \in DOMAIN tables' : Fresh(tables'[i], i)
  PROVE  FromUpstream'
<1>1. 1 .. head \subseteq 1 .. head'
  BY UpstreamAssumption DEF TypeOK
<1> QED
  BY <1>1 DEF FromUpstream, Whole, Fresh

LEMMA FromUpstreamStep ==
  ASSUME IInv, FromUpstream, [Next]_vars PROVE FromUpstream'
<1> USE DEF IInv
<1>1. ASSUME NEW ok \in BOOLEAN, Generate(ok) PROVE FromUpstream'
  <2> DEFINE i == Len(tables) + 1
             t == IF ok /\ Generable[head][i] THEN Generated[head][i]
                  ELSE base["sync"].tables[i]
  <2>1. /\ base["sync"] # None /\ tables \in {<<>>} \cup {<<s>> : s \in Table(1)}
        /\ tables' = Append(tables, t) /\ UNCHANGED <<head, main, base>>
    BY <1>1 DEF Generate, Goes, Fetched, SyncOK
  <2>2. i \in 1 .. 2
    <3>1. CASE tables = <<>>
      BY <3>1
    <3>2. CASE tables # <<>>
      <4>1. PICK s \in Table(1) : tables = <<s>>
        BY <2>1, <3>2
      <4> QED
        BY <4>1
    <3> QED
      BY <3>1, <3>2
  <2>3. Fresh(t, i)
    <3>1. Fresh(Generated[head][i], i)
      BY UpstreamAssumption DEF Fresh, TypeOK
    <3>2. Fresh(base["sync"].tables[i], i)
      BY <2>1, <2>2 DEF FromUpstream, Whole
    <3> QED
      BY <3>1, <3>2
  <2> HIDE DEF t
  <2>4. \A j \in DOMAIN tables' : Fresh(tables'[j], j)
    <3>1. CASE tables = <<>>
      BY <2>1, <2>3, <3>1
    <3>2. CASE tables # <<>>
      <4>1. PICK s \in Table(1) : tables = <<s>>
        BY <2>1, <3>2
      <4>2. tables' = [j \in 1 .. 2 |-> IF j = 1 THEN s ELSE t] /\ i = 2
        BY <2>1, <4>1, TwoTables
      <4>3. Fresh(s, 1)
        BY <4>1 DEF FromUpstream
      <4> QED
        BY <2>3, <4>2, <4>3
    <3> QED
      BY <3>1, <3>2
  <2> QED
    BY <2>1, <2>4, FromUpstreamStays DEF FromUpstream
<1>2. ASSUME Checkout("sync") PROVE FromUpstream'
  <2>1. /\ base'["sync"].tables = main.tables
        /\ UNCHANGED <<head, main, tables>>
    BY <1>2 DEF Checkout, world, sync, TypeOK, Job
  <2> QED
    BY <2>1, FromUpstreamStays DEF FromUpstream
<1>3. ASSUME Test PROVE FromUpstream'
  <2>1. /\ base'["sync"] \in {base["sync"], None} /\ tables' \in {tables, <<>>}
        /\ UNCHANGED <<head, main>>
    BY <1>3 DEF Test, Ends, world, sync, TypeOK, Job
  <2> QED
    BY <2>1, FromUpstreamStays DEF FromUpstream
<1>4. ASSUME Push PROVE FromUpstream'
  <2>1. base'["sync"] = None /\ tables' = <<>> /\ head' = head
    BY <1>4 DEF Push, Pushes, Ends, world, TypeOK, Job
  <2>2. main'.tables \in {main.tables, tables}
    BY <1>4 DEF Push, Pushes, Commits, TypeOK
  <2>3. Whole(tables)
    BY <1>4 DEF Push, SyncOK, Tables, FromUpstream, Whole
  <2> QED
    BY <2>1, <2>2, <2>3, FromUpstreamStays DEF FromUpstream
<1>5. ASSUME DetectStep PROVE FromUpstream'
  <2>1. base'["sync"] = base["sync"] /\ UNCHANGED <<tables, head>>
    BY <1>5 DEF DetectStep, Checkout, Hash, Fetched, Compare, OpenReview, PushBaseline, Pushes,
                Ends, Goes, world, sync, TypeOK, Job
  <2>2. main'.tables = main.tables
    BY <1>5 DEF DetectStep, Checkout, Hash, Compare, OpenReview, PushBaseline, Pushes,
                Commits, TypeOK
  <2> QED
    BY <2>1, <2>2, FromUpstreamStays DEF FromUpstream
<1>6. ASSUME \/ StartRun \/ Advance \/ Merge \/ (\E uses \in Uses : HumanCommit(uses))
             \/ UNCHANGED vars
      PROVE  FromUpstream'
  <2>1. UNCHANGED <<base, tables>> /\ head' \in {head, head + 1}
    BY <1>6 DEF StartRun, Advance, Merge, HumanCommit, vars, world, sync
  <2>2. main'.tables = main.tables
    BY <1>6 DEF StartRun, Advance, Merge, HumanCommit, Commits, vars, TypeOK
  <2> QED
    BY <2>1, <2>2, FromUpstreamStays DEF FromUpstream
<1> QED
  BY <1>1, <1>2, <1>3, <1>4, <1>5, <1>6 DEF Next, SyncStep

-----------------------------------------------------------------------------
(* The generator's loop numbers a file as the C# compiler does.            *)

IsMember == {line \in Line : line.kind = "member"}

(* What the loop starts from, goes over and does in one turn.              *)
Nothing == [members |-> <<>>, next |-> 0]
Entry ==
  [ name : STRING, value : Nat,
    comment : [text : STRING, cut : BOOLEAN, torn : BOOLEAN] ]
State == [members : Seq(Entry), next : Nat]
Turn == [x \in State \X Line |-> Reads(x[1], x[2])]

LEMMA ReadsTyped ==
  ASSUME NEW st \in State, NEW line \in Line
  PROVE  /\ Reads(st, line) \in State
         /\ (IF line.value = Unset THEN st.next ELSE line.value) \in Nat
<1> DEFINE val == IF line.value = Unset THEN st.next ELSE line.value
           e == Member(line, val)
<1>1. val \in Nat
  BY DEF Line, State
<1> HIDE DEF val
<1>2. e \in Entry
  <2>1. ExtractComment(line.comment) \in [text : STRING, cut : BOOLEAN, torn : BOOLEAN]
    BY DEF ExtractComment, Line
  <2>2. line.name \in STRING
    BY DEF Line
  <2> QED
    BY <1>1, <2>1, <2>2 DEF Member, Entry
<1> HIDE DEF e
<1>3. st.members \in Seq(Entry)
  BY DEF State
<1>4. Append(st.members, e) \in Seq(Entry)
  BY <1>2, <1>3, AppendProperties
<1>5. [members |-> Append(st.members, e), next |-> val + 1] \in State
  BY <1>1, <1>4 DEF State
<1> QED
  BY <1>1, <1>5 DEF Reads, val, e

LEMMA TurnBody == LoopBody(Turn, State, Line) /\ Nothing \in State
<1>1. \A x \in State \X Line : Reads(x[1], x[2]) \in State
  BY ReadsTyped
<1>2. Nothing \in State
  BY EmptySeq DEF Nothing, State
<1> QED
  BY <1>1, <1>2 DEF Turn, LoopBody

(* The loop in Members is a loop of this kind.                             *)
LEMMA MembersLoop ==
  ASSUME NEW file, file.lines \in Seq(Line)
  PROVE  Members(file) = LoopOf(file.lines, Nothing, Turn).members
<1> DEFINE s == file.lines
           N(k) == k = [n \in 0 .. Len(s) |->
                          IF n = 0 THEN [members |-> <<>>, next |-> 0]
                                   ELSE Reads(k[n - 1], s[n])]
           f == CHOOSE k : N(k)
<1>0. Members(file) = f[Len(s)].members
  BY DEF Members
<1>1. s \in Seq(Line)
  OBVIOUS
<1> HIDE DEF s
<1>2. PICK h \in [0 .. Len(s) -> State] :
        /\ LoopOf(s, Nothing, Turn) = h[Len(s)] /\ h[0] = Nothing
        /\ \A n \in 1 .. Len(s) : h[n] = Turn[<<h[n - 1], s[n]>>]
  BY <1>1, TurnBody, LoopSteps
<1>3. Len(s) \in Nat /\ \A n \in 1 .. Len(s) : s[n] \in Line
  BY <1>1, LenProperties, ElementOfSeq
<1>4. \A n \in 1 .. Len(s), x \in State : Turn[<<x, s[n]>>] = Reads(x, s[n])
  BY <1>3 DEF Turn
<1>5. N(h)
  <2>1. \A n \in 0 .. Len(s) : h[n] = IF n = 0 THEN [members |-> <<>>, next |-> 0]
                                               ELSE Reads(h[n - 1], s[n])
    <3> SUFFICES ASSUME NEW n \in 0 .. Len(s), n # 0 PROVE h[n] = Reads(h[n - 1], s[n])
      BY <1>2 DEF Nothing
    <3>1. n \in 1 .. Len(s) /\ n - 1 \in 0 .. Len(s)
      BY <1>3
    <3>2. h[n - 1] \in State
      BY <3>1
    <3>3. h[n] = Turn[<<h[n - 1], s[n]>>]
      BY <1>2, <3>1
    <3>4. Turn[<<h[n - 1], s[n]>>] = Reads(h[n - 1], s[n])
      BY <1>4, <3>1, <3>2
    <3> QED
      BY <3>3, <3>4
  <2>2. h = [n \in 0 .. Len(s) |-> h[n]]
    OBVIOUS
  <2> QED
    BY <2>1, <2>2
<1>6. N(f)
  BY <1>5
<1> HIDE DEF f
<1>7. \A n \in 0 .. Len(s) : f[n] = IF n = 0 THEN Nothing ELSE Reads(f[n - 1], s[n])
  BY <1>6 DEF Nothing
<1>8. f[0] = Nothing
  BY <1>3, <1>7
<1>9. \A n \in 1 .. Len(s) : f[n - 1] \in State => f[n] = Turn[<<f[n - 1], s[n]>>]
  <2> SUFFICES ASSUME NEW n \in 1 .. Len(s), f[n - 1] \in State
               PROVE  f[n] = Turn[<<f[n - 1], s[n]>>]
    OBVIOUS
  <2>1. n \in 0 .. Len(s) /\ n # 0
    BY <1>3
  <2>2. f[n] = Reads(f[n - 1], s[n])
    BY <1>7, <2>1
  <2>3. Turn[<<f[n - 1], s[n]>>] = Reads(f[n - 1], s[n])
    BY <1>4
  <2> QED
    BY <2>2, <2>3
<1>10. f[Len(s)] = LoopOf(s, Nothing, Turn)
  <2> HIDE DEF N
  <2> QED
    BY <1>1, <1>8, <1>9, TurnBody, LoopResult
<1> QED
  BY <1>0, <1>10 DEF s

-----------------------------------------------------------------------------
(* The greatest of some numbers up to n.                                   *)
LEMMA MaxFacts ==
  ASSUME NEW n \in Nat, NEW T, T \subseteq 1 .. n, T # {}
  PROVE  Max(T) \in T /\ \A k \in T : k <= Max(T)
<1>1. T \subseteq 0 .. n /\ \A k \in T : k \in Int
  OBVIOUS
<1>2. PICK x \in T : \A k \in T : k <= x
  BY <1>1, GreatestNatural
<1>3. \A k \in T : x >= k
  BY <1>1, <1>2
<1>4. Max(T) \in T /\ \A k \in T : Max(T) >= k
  BY <1>3 DEF Max
<1> QED
  BY <1>1, <1>4

(* The value that a member without one would have behind these.            *)
NextValue(ms) == IF ms = <<>> THEN 0 ELSE Value(ms, Len(ms)) + 1

(* Another member behind it does not change a member's value.              *)
LEMMA ValueStays ==
  ASSUME NEW ms \in Seq(Line), NEW line \in Line, NEW i \in 1 .. Len(ms)
  PROVE  Value(Append(ms, line), i) = Value(ms, i)
<1> DEFINE t == Append(ms, line)
           T == {j \in 1 .. i : ms[j].value # Unset}
<1>1. Len(ms) \in Nat /\ \A j \in 1 .. i : t[j] = ms[j]
  BY LenProperties, AppendProperties
<1> HIDE DEF t
<1>2. {j \in 1 .. i : t[j].value # Unset} = T
  BY <1>1
<1>3. T # {} => Max(T) \in 1 .. i
  <2>1. T \subseteq 1 .. i /\ i \in Nat
    BY <1>1
  <2> HIDE DEF T
  <2> QED
    BY <2>1, MaxFacts
<1> HIDE DEF T
<1>4. T # {} => t[Max(T)] = ms[Max(T)]
  BY <1>1, <1>3
<1> QED
  BY <1>2, <1>4 DEF Value, t, T

(* Its own value is the one the loop gives it.                             *)
LEMMA ValueNext ==
  ASSUME NEW ms \in Seq(Line), NEW line \in Line
  PROVE  Value(Append(ms, line), Len(ms) + 1)
           = IF line.value = Unset THEN NextValue(ms) ELSE line.value
<1> DEFINE t == Append(ms, line)
           N == Len(ms)
           T == {j \in 1 .. N + 1 : t[j].value # Unset}
           S == {j \in 1 .. N : ms[j].value # Unset}
<1>1. /\ N \in Nat /\ \A j \in 1 .. N : t[j] = ms[j] /\ ms[j] \in Line
      /\ t[N + 1] = line
  BY LenProperties, ElementOfSeq, AppendProperties
<1>2. Value(t, N + 1) = IF T = {} THEN (N + 1) - 1 ELSE t[Max(T)].value + (N + 1) - Max(T)
  BY DEF Value
<1>3. Value(ms, N) = IF S = {} THEN N - 1 ELSE ms[Max(S)].value + N - Max(S)
  BY DEF Value
<1>4. ms = <<>> <=> N = 0
  BY EmptySeq
<1> HIDE DEF t, N
<1>5. T \subseteq 1 .. N + 1 /\ N + 1 \in Nat /\ S \subseteq 1 .. N
  BY <1>1
<1>6. CASE line.value # Unset
  <2>1. N + 1 \in T
    BY <1>1, <1>6
  <2>2. Max(T) \in T /\ N + 1 <= Max(T)
    <3> HIDE DEF T
    <3> QED
      BY <1>5, <2>1, MaxFacts
  <2>3. Max(T) = N + 1
    BY <1>1, <1>5, <2>2
  <2>4. line.value \in Nat
    BY <1>6 DEF Line
  <2>5. Value(t, N + 1) = line.value + (N + 1) - (N + 1)
    <3> HIDE DEF T
    <3> QED
      BY <1>1, <1>2, <2>1, <2>3
  <2>6. Value(t, N + 1) = line.value
    BY <1>1, <2>4, <2>5
  <2> QED
    BY <1>6, <2>6 DEF t, N
<1>7. CASE line.value = Unset
  <2>1. T = S
    BY <1>1, <1>7
  <2>2. CASE S = {}
    <3>1. Value(t, N + 1) = N
      BY <1>1, <1>2, <2>1, <2>2
    <3>2. NextValue(ms) = N
      <4>1. N # 0 => Value(ms, N) + 1 = N
        BY <1>1, <1>3, <2>2
      <4> QED
        BY <1>4, <4>1 DEF NextValue, N
    <3> QED
      BY <1>7, <3>1, <3>2 DEF t, N
  <2>3. CASE S # {}
    <3> DEFINE m == Max(S)
    <3>1. m \in S
      <4> HIDE DEF S
      <4> QED
        BY <1>1, <1>5, <2>3, MaxFacts
    <3>2. m \in 1 .. N /\ ms[m].value \in Nat /\ t[m] = ms[m] /\ N # 0
      BY <1>1, <3>1 DEF Line
    <3>3. Value(t, N + 1) = ms[m].value + (N + 1) - m /\ Value(ms, N) = ms[m].value + N - m
      <4> HIDE DEF S, T
      <4> QED
        BY <1>2, <1>3, <2>1, <2>3, <3>2
    <3>4. NextValue(ms) = Value(ms, N) + 1
      BY <1>4, <3>2 DEF NextValue, N
    <3> HIDE DEF m
    <3>5. Value(t, N + 1) = Value(ms, N) + 1
      <4> DEFINE v == ms[m].value
      <4>1. v \in Nat /\ m \in Int
        BY <3>2
      <4> HIDE DEF v
      <4>2. v + (N + 1) - m = (v + N - m) + 1
        BY <1>1, <4>1
      <4> QED
        BY <3>3, <4>2 DEF v
    <3> QED
      BY <1>7, <3>4, <3>5 DEF t, N
  <2> QED
    BY <2>2, <2>3
<1> QED
  BY <1>6, <1>7

-----------------------------------------------------------------------------
(* What the loop has read agrees with C# on the members so far.            *)
Agree(st, ms) ==
  /\ Len(st.members) = Len(ms) /\ st.next = NextValue(ms)
  /\ \A i \in 1 .. Len(ms) :
       st.members[i].name = ms[i].name /\ st.members[i].value = Value(ms, i)

LEMMA AgreeStep ==
  ASSUME NEW st \in State, NEW ms \in Seq(Line), Agree(st, ms), NEW line \in IsMember
  PROVE  Agree(Reads(st, line), Append(ms, line))
<1> DEFINE val == IF line.value = Unset THEN st.next ELSE line.value
           e == Member(line, val)
           t == Append(ms, line)
           u == Append(st.members, e)
<1>1. line \in Line /\ line.kind = "member"
  BY DEF IsMember
<1>2. Reads(st, line) = [members |-> u, next |-> val + 1]
  BY <1>1 DEF Reads
<1>3. st.members \in Seq(Entry) /\ val \in Nat /\ e \in Entry
  <2>1. val \in Nat
    BY <1>1, ReadsTyped
  <2>2. ExtractComment(line.comment) \in [text : STRING, cut : BOOLEAN, torn : BOOLEAN]
    BY <1>1 DEF ExtractComment, Line
  <2>3. line.name \in STRING
    BY <1>1 DEF Line
  <2>4. e \in Entry
    <3> HIDE DEF val
    <3> QED
      BY <2>1, <2>2, <2>3 DEF Member, Entry
  <2> QED
    BY <2>1, <2>4 DEF State
<1>4. e.name = line.name /\ e.value = val
  BY DEF Member
<1>5. val = Value(t, Len(ms) + 1)
  BY <1>1, ValueNext DEF Agree
<1> HIDE DEF val, e
<1>6. /\ t \in Seq(Line) /\ Len(ms) \in Nat /\ Len(t) = Len(ms) + 1
      /\ \A i \in 1 .. Len(ms) : t[i] = ms[i]
      /\ t[Len(ms) + 1] = line
  BY <1>1, LenProperties, AppendProperties
<1>7. /\ Len(u) = Len(ms) + 1
      /\ \A i \in 1 .. Len(ms) : u[i] = st.members[i]
      /\ u[Len(ms) + 1] = e
  BY <1>3, AppendProperties DEF Agree
<1>8. \A i \in 1 .. Len(ms) : Value(t, i) = Value(ms, i)
  BY <1>1, ValueStays
<1>9. t # <<>>
  BY <1>6, EmptySeq
<1> HIDE DEF t, u
<1>10. val + 1 = NextValue(t)
  BY <1>5, <1>6, <1>9 DEF NextValue
<1>11. \A i \in 1 .. Len(t) : u[i].name = t[i].name /\ u[i].value = Value(t, i)
  <2> SUFFICES ASSUME NEW i \in 1 .. Len(t)
               PROVE  u[i].name = t[i].name /\ u[i].value = Value(t, i)
    OBVIOUS
  <2>1. CASE i = Len(ms) + 1
    BY <1>4, <1>5, <1>6, <1>7, <2>1
  <2>2. CASE i # Len(ms) + 1
    <3>1. i \in 1 .. Len(ms)
      BY <1>6, <2>2
    <3> QED
      BY <1>6, <1>7, <1>8, <3>1 DEF Agree
  <2> QED
    BY <2>1, <2>2
<1> QED
  BY <1>2, <1>6, <1>7, <1>10, <1>11 DEF Agree, t

LEMMA LoopAgrees ==
  ASSUME NEW s \in Seq(Line)
  PROVE  Agree(LoopOf(s, Nothing, Turn), Filtered(s, IsMember))
<1> DEFINE P == {t \in Seq(Line) : Agree(LoopOf(t, Nothing, Turn), Filtered(t, IsMember))}
<1>1. <<>> \in P
  <2>1. LoopOf(<<>>, Nothing, Turn) = Nothing /\ Filtered(<<>>, IsMember) = <<>>
    BY TurnBody, LoopEmpty, FilteredEmpty
  <2>2. Agree(Nothing, <<>>)
    BY EmptySeq DEF Agree, Nothing, NextValue
  <2> QED
    BY <2>1, <2>2, EmptySeq
<1>2. ASSUME NEW t \in Seq(Line), NEW line \in Line, t \in P PROVE Append(t, line) \in P
  <2> DEFINE st == LoopOf(t, Nothing, Turn)
             ms == Filtered(t, IsMember)
  <2>1. Append(t, line) \in Seq(Line)
    BY AppendProperties
  <2>2. st \in State /\ LoopOf(Append(t, line), Nothing, Turn) = Turn[<<st, line>>]
    BY TurnBody, LoopType, LoopAppend
  <2>3. Turn[<<st, line>>] = Reads(st, line)
    <3> HIDE DEF st
    <3> QED
      BY <2>2 DEF Turn
  <2>4. Filtered(Append(t, line), IsMember) = IF line \in IsMember THEN Append(ms, line) ELSE ms
    BY FilteredAppend
  <2>5. ms \in Seq(Line)
    <3>1. ms \in Seq(Line \cap IsMember)
      BY FilteredType
    <3> QED
      BY <3>1, SeqMonotonic
  <2>6. Agree(st, ms)
    BY <1>2
  <2> HIDE DEF st, ms
  <2>7. line \in IsMember => Agree(Reads(st, line), Append(ms, line))
    BY <2>2, <2>5, <2>6, AgreeStep
  <2>8. line \notin IsMember => Reads(st, line) = st
    BY DEF IsMember, Reads
  <2>9. Agree(LoopOf(Append(t, line), Nothing, Turn), Filtered(Append(t, line), IsMember))
    BY <2>2, <2>3, <2>4, <2>6, <2>7, <2>8
  <2> QED
    BY <2>1, <2>9
<1> HIDE DEF P
<1>3. Seq(Line) \subseteq P
  BY <1>1, <1>2, SequenceInduction
<1> QED
  BY <1>3 DEF P

(* The numbers that the generator gives a file are those of C#.            *)
LEMMA NumbersLikeCSharp ==
  ASSUME NEW file, file.lines \in Seq(Line)
  PROVE  Numbers(Members(file)) = CSharp(file)
<1> DEFINE s == file.lines
           S == {line \in Range(s) : line.kind = "member"}
           ms == Filtered(s, IsMember)
           st == LoopOf(s, Nothing, Turn)
<1>1. s \in Seq(Line)
  OBVIOUS
<1>2. Members(file) = st.members
  BY MembersLoop
<1>3. CSharp(file) = [i \in DOMAIN Filtered(s, S) |->
                        [name |-> Filtered(s, S)[i].name, value |-> Value(Filtered(s, S), i)]]
  BY DEF CSharp
<1> HIDE DEF s
<1>4. Filtered(s, S) = ms
  <2> DEFINE A == Range(s)
  <2>1. s \in Seq(A) /\ \A e \in A : e \in Line
    <3>1. Len(s) \in Nat /\ s \in [1 .. Len(s) -> Line]
      BY <1>1, LenProperties
    <3>2. s \in [1 .. Len(s) -> Range(s)] /\ \A e \in Range(s) : e \in Line
      BY <3>1 DEF Range
    <3> QED
      BY <3>1, <3>2
  <2>2. \A e \in A : e \in S <=> e \in IsMember
    BY <2>1 DEF IsMember
  <2> HIDE DEF A, S
  <2> QED
    BY <2>1, <2>2, FilteredSame
<1>5. Agree(st, ms)
  BY <1>1, LoopAgrees
<1>6. st.members \in Seq(Entry)
  <2>1. st \in State
    BY <1>1, TurnBody, LoopType
  <2> HIDE DEF st
  <2> QED
    BY <2>1 DEF State
<1>7. ms \in Seq(Line)
  <2>1. ms \in Seq(Line \cap IsMember)
    BY <1>1, FilteredType
  <2> QED
    BY <2>1, SeqMonotonic
<1> HIDE DEF ms, st, S
<1>8. DOMAIN st.members = 1 .. Len(ms) /\ DOMAIN ms = 1 .. Len(ms)
  BY <1>5, <1>6, <1>7, LenProperties DEF Agree
<1> QED
  BY <1>2, <1>3, <1>4, <1>5, <1>8 DEF Agree, Numbers

-----------------------------------------------------------------------------
(* Each table on main has the numbers that C# gives one upstream version,  *)
(* whole, for any versions and however fetches fail.                       *)
THEOREM NumberedHolds == Spec => []NumberedAsUpstream
<1>1. Init => FromUpstream
  BY UpstreamAssumption DEF Init, FromUpstream, Whole, Fresh, Generated, Job
<1>2. IInv /\ FromUpstream /\ [Next]_vars => FromUpstream'
  BY FromUpstreamStep
<1>3. TypeOK /\ FromUpstream => NumberedAsUpstream
  <2>1. TypeOK => \A n \in 1 .. head : n \in DOMAIN Upstream
    BY UpstreamAssumption DEF TypeOK
  <2>2. \A n \in DOMAIN Upstream, i \in 1 .. 2 : Numbers(Generated[n][i]) = Numbered[n][i]
    BY UpstreamAssumption, NumbersLikeCSharp DEF Generated, Numbered
  <2> QED
    BY <2>1, <2>2 DEF FromUpstream, Whole, Fresh, NumberedAsUpstream
<1>4. IInv => TypeOK
  BY DEF IInv
<1> QED
  BY <1>1, <1>2, <1>3, <1>4, InvAlways, PTL DEF Spec
=============================================================================
