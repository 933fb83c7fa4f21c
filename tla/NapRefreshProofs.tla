-------------------------- MODULE NapRefreshProofs --------------------------
(***************************************************************************)
(* The tools of a package are one adapted commit of upstream, and failures *)
(* spare the earlier ones, for any upstream and any number of attempts.    *)
(***************************************************************************)
EXTENDS NapRefresh, TLAPS

Tail == {"test", "read", "verify", "install"}
Good == Regular \cap Fitting

(* The commit that was asked for is what goes from place to place.         *)
OneCommit ==
  /\ pc \in Places \ {"query"} => commit \in Commits /\ asked <= commit
  /\ pc \in {"check", "stage"} => checkout = commit
  /\ pc \in {"stage"} => commit \in Regular
  /\ pc \in {"retire", "promote"} =>
       commit \in Good /\ stage = [files |-> commit, adapted |-> TRUE, names |-> commit, edited |-> FALSE]
  /\ pc \in Tail => commit \in Good /\ output.files = commit /\ output.names = commit /\ output.adapted
  /\ pc \in {"verify", "install"} => manifest = commit
  /\ pc = "install" => ~output.edited

(* Until the second rename the earlier tools are where they were, or where *)
(* the rollback finds them.                                                *)
Spared ==
  /\ pc \in {"query", "fetch", "check", "stage", "retire"} => output = before
  /\ pc = "promote" => previous = before

IInv == TypeOK /\ OneCommit /\ PackageIsUpstream /\ Spared /\ FailureKeepsOutput

LEMMA Distinct == Nothing \notin Directories /\ Nothing \notin Commits
BY RefreshShape DEF Directories, Commits

LEMMA Resolved ==
  ASSUME NEW c \in Commits
  PROVE  [files |-> c, adapted |-> TRUE, names |-> c, edited |-> FALSE] \in Directories
BY DEF Directories

LEMMA Touched ==
  ASSUME NEW d \in Directories, NEW c \in Commits
  PROVE  [d EXCEPT !.edited = TRUE] \in Directories /\ [d EXCEPT !.names = c] \in Directories
BY DEF Directories

LEMMA InitHolds == Init => IInv
BY RefreshShape DEF Init, IInv, TypeOK, OneCommit, PackageIsUpstream, Spared, FailureKeepsOutput,
   Commits, Places, Halted, Errors, Tail

LEMMA TypeStep == IInv /\ [Next]_vars => TypeOK'
<1>. SUFFICES ASSUME IInv, [Next]_vars PROVE TypeOK'
  OBVIOUS
<1>. USE Distinct DEF TypeOK, upstream, work, Places, Halted, Errors
<1>. TypeOK /\ OneCommit
  BY DEF IInv
<1>. Attempts \in Nat \ {0} /\ Commits = 1..MaxCommits /\ MaxCommits \in Nat
  BY RefreshShape DEF Commits
<1>1. CASE UNCHANGED vars
  BY <1>1 DEF vars
<1>2. CASE Push
  BY <1>2 DEF Push
<1>3. CASE Edit
  <2>1. output \in Directories
    BY <1>3 DEF Edit
  <2>2. output' \in Directories
    BY <1>3, <2>1, RefreshShape, Touched DEF Edit, Commits
  <2>. QED BY <1>3, <2>2 DEF Edit
<1>4. CASE Begin
  BY <1>4 DEF Begin, Running
<1>5. CASE Stop
  BY <1>5 DEF Stop, Running
<1>6. CASE Retry
  BY <1>6 DEF Retry, More, Counted, Fail
<1>7. CASE LsRemote \/ FetchCommit
  BY <1>7 DEF LsRemote, FetchCommit, Fetched
<1>8. CASE CheckTools \/ NoSpace \/ TestTools \/ VerifyHashes
  BY <1>8 DEF CheckTools, NoSpace, TestTools, VerifyHashes, Fail
<1>9. CASE Adapt
  <2>1. commit \in Commits /\ checkout = commit
    BY <1>9 DEF Adapt, OneCommit
  <2>2. CASE checkout \in Fitting
    BY <1>9, <2>1, <2>2, Resolved DEF Adapt
  <2>3. CASE checkout \notin Fitting
    BY <1>9, <2>3 DEF Adapt, Fail
  <2>. QED BY <2>2, <2>3
<1>10. CASE Retire \/ Promote
  <2>1. commit \in Commits /\ stage = [files |-> commit, adapted |-> TRUE, names |-> commit, edited |-> FALSE]
    BY <1>10 DEF Retire, Promote, OneCommit, Good
  <2>2. stage \in Directories
    BY <2>1, Resolved
  <2>. QED BY <1>10, <2>2 DEF Retire, Promote
<1>11. CASE PromoteFails
  BY <1>11 DEF PromoteFails, Fail, RolledBack
<1>12. CASE ReadManifest
  BY <1>12 DEF ReadManifest, OneCommit, Tail
<1>13. CASE Install
  <2>1. output \in Directories /\ manifest \in Commits
    BY <1>13 DEF Install, OneCommit, Tail
  <2>2. package' \in Directories
    BY <1>13, <2>1, Touched DEF Install
  <2>. QED BY <1>13, <2>2 DEF Install
<1>. QED
  BY <1>1, <1>2, <1>3, <1>4, <1>5, <1>6, <1>7, <1>8, <1>9, <1>10, <1>11, <1>12, <1>13 DEF Next, Build

(* What is asked for is never newer than the head, so what ls-remote       *)
(* returns is new enough.                                                  *)
LEMMA OneCommitStep == IInv /\ asked <= head /\ [Next]_vars => OneCommit'
<1>. SUFFICES ASSUME IInv, asked <= head, [Next]_vars PROVE OneCommit'
  OBVIOUS
<1>. USE DEF OneCommit, Places, Halted, Tail, Good, upstream, work
<1>. TypeOK /\ OneCommit
  BY DEF IInv
<1>. head \in Commits /\ asked \in Commits /\ Commits \subseteq Int
  BY RefreshShape DEF TypeOK, Commits
<1>1. CASE UNCHANGED vars
  BY <1>1 DEF vars
<1>2. CASE Push
  BY <1>2 DEF Push
<1>3. CASE Edit
  <2>1. output \in Directories
    BY <1>3 DEF Edit, TypeOK
  <2>2. output'.files = output.files /\ output'.names = output.names /\ output'.adapted = output.adapted
    BY <1>3, <2>1 DEF Edit, Directories
  <2>. QED BY <1>3, <2>2 DEF Edit
<1>4. CASE Begin \/ Stop
  BY <1>4 DEF Begin, Stop
<1>5. CASE Retry
  BY <1>5 DEF Retry, Fail
<1>6. CASE LsRemote \/ FetchCommit
  BY <1>6 DEF LsRemote, FetchCommit, Fetched
<1>7. CASE CheckTools \/ NoSpace \/ TestTools \/ VerifyHashes
  BY <1>7 DEF CheckTools, NoSpace, TestTools, VerifyHashes, Fail
<1>8. CASE Adapt
  BY <1>8 DEF Adapt, Fail
<1>9. CASE Retire
  BY <1>9 DEF Retire
<1>10. CASE Promote
  BY <1>10 DEF Promote
<1>11. CASE PromoteFails
  BY <1>11 DEF PromoteFails, Fail
<1>12. CASE ReadManifest \/ Install
  BY <1>12 DEF ReadManifest, Install
<1>. QED
  BY <1>1, <1>2, <1>3, <1>4, <1>5, <1>6, <1>7, <1>8, <1>9, <1>10, <1>11, <1>12 DEF Next, Build

LEMMA PackageStep == IInv /\ [Next]_vars => PackageIsUpstream'
<1>. SUFFICES ASSUME IInv, [Next]_vars PROVE PackageIsUpstream'
  OBVIOUS
<1>1. CASE Install
  <2>1. /\ output \in Directories /\ manifest = commit /\ asked <= commit /\ ~output.edited
        /\ commit \in Good /\ output.files = commit /\ output.adapted
    BY <1>1 DEF IInv, TypeOK, OneCommit, Install, Tail, Places
  <2>2. /\ package'.files = commit /\ package'.names = commit /\ package'.adapted /\ ~package'.edited
    BY <1>1, <2>1 DEF Install, Directories
  <2>. QED BY <1>1, <2>1, <2>2 DEF Install, PackageIsUpstream, Good, upstream, Commits
<1>2. CASE Begin
  BY <1>2 DEF Begin, PackageIsUpstream
<1>3. CASE ~Install /\ ~Begin
  <2>1. UNCHANGED <<package, asked>>
    BY <1>3 DEF Next, Build, vars, upstream, Push, Edit, Stop, Retry, LsRemote, FetchCommit, CheckTools, Adapt,
       NoSpace, Retire, Promote, PromoteFails, TestTools, ReadManifest, VerifyHashes
  <2>. QED BY <2>1 DEF IInv, PackageIsUpstream
<1>. QED BY <1>1, <1>2, <1>3

LEMMA SparedStep == IInv /\ [Next]_vars => Spared' /\ FailureKeepsOutput'
<1>. SUFFICES ASSUME IInv, [Next]_vars PROVE Spared' /\ FailureKeepsOutput'
  OBVIOUS
<1>. USE DEF Spared, FailureKeepsOutput, Places, Halted, upstream, work
<1>. TypeOK /\ Spared /\ FailureKeepsOutput
  BY DEF IInv
<1>1. CASE UNCHANGED vars
  BY <1>1 DEF vars
<1>2. CASE Push
  BY <1>2 DEF Push
<1>3. CASE Edit
  <2>1. output \in Directories /\ output' \in Directories
    BY <1>3, Touched, RefreshShape DEF Edit, TypeOK, Commits
  <2>2. [output' EXCEPT !.edited = FALSE] = [output EXCEPT !.edited = FALSE]
    BY <1>3, <2>1 DEF Edit, Directories
  <2>3. before \in Directories \cup {Nothing}
    BY DEF TypeOK
  <2>. QED BY <1>3, <2>1, <2>2, <2>3, Distinct DEF Edit
<1>4. CASE Begin \/ Stop
  BY <1>4 DEF Begin, Stop
<1>5. CASE Retry
  BY <1>5 DEF Retry, Fail
<1>6. CASE LsRemote \/ FetchCommit
  BY <1>6 DEF LsRemote, FetchCommit
<1>7. CASE CheckTools \/ NoSpace \/ TestTools \/ VerifyHashes
  BY <1>7 DEF CheckTools, NoSpace, TestTools, VerifyHashes, Fail
<1>8. CASE Adapt
  BY <1>8 DEF Adapt, Fail
<1>9. CASE Retire \/ Promote
  BY <1>9 DEF Retire, Promote
<1>10. CASE PromoteFails
  BY <1>10 DEF PromoteFails, RolledBack, Fail
<1>11. CASE ReadManifest \/ Install
  BY <1>11 DEF ReadManifest, Install
<1>. QED
  BY <1>1, <1>2, <1>3, <1>4, <1>5, <1>6, <1>7, <1>8, <1>9, <1>10, <1>11 DEF Next, Build

LEMMA HeadStep == IInv /\ asked <= head /\ [Next]_vars => (asked <= head)'
<1>. SUFFICES ASSUME IInv, asked <= head, [Next]_vars PROVE (asked <= head)'
  OBVIOUS
<1>. head \in Int /\ asked \in Int
  BY RefreshShape DEF IInv, TypeOK, Commits
<1>1. CASE Push
  BY <1>1 DEF Push
<1>2. CASE Begin
  BY <1>2 DEF Begin
<1>3. CASE ~Push /\ ~Begin
  <2>1. UNCHANGED <<head, asked>>
    BY <1>3 DEF Next, Build, vars, upstream, Edit, Stop, Retry, LsRemote, FetchCommit, CheckTools, Adapt,
       NoSpace, Retire, Promote, PromoteFails, TestTools, ReadManifest, VerifyHashes, Install
  <2>. QED BY <2>1
<1>. QED BY <1>1, <1>2, <1>3

THEOREM Invariance == Spec => [](IInv /\ asked <= head)
<1>1. Init => IInv /\ asked <= head
  BY InitHolds, RefreshShape DEF Init
<1>2. IInv /\ asked <= head /\ [Next]_vars => (IInv /\ asked <= head)'
  BY TypeStep, OneCommitStep, PackageStep, SparedStep, HeadStep DEF IInv
<1>. QED
  BY <1>1, <1>2, PTL DEF Spec

(* The variables of a build keep their types, for any upstream.            *)
THEOREM TypeCorrect == Spec => []TypeOK
BY Invariance, PTL DEF IInv

(* A package holds one commit of upstream, adapted, unchanged since it was *)
(* resolved, the one it names, and no older than its build.                *)
THEOREM PackageStaysUpstream == Spec => []PackageIsUpstream
BY Invariance, PTL DEF IInv

(* A failed fetch, adaptation or rename leaves the tools of the build      *)
(* before, unless its rollback fails too.                                  *)
THEOREM FailureSpares == Spec => []FailureKeepsOutput
BY Invariance, PTL DEF IInv
=============================================================================
