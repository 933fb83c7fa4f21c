----------------------------- MODULE NapRefresh -----------------------------
(***************************************************************************)
(* The NAP tools of a package: refresh-tools.py resolves the head of       *)
(* upstream into .resolved-nap-tools, build-tuning-package.sh tests what   *)
(* is there and install-tools.py copies it into the package.  Upstream     *)
(* moves on, the network and the disk fail, a person edits the directory,  *)
(* and the build is interrupted or killed anywhere and started again.      *)
(*                                                                         *)
(* A directory of tools is a record of the commit its files are from, of   *)
(* whether they are adapted (integration.patch and the local files), the   *)
(* commit its UPSTREAM.json names, and of whether a file in it is not the  *)
(* one UPSTREAM.json has the hash of.                                      *)
(***************************************************************************)
EXTENDS Integers

CONSTANTS
  MaxCommits, \* bound on the commits upstream
  Regular,    \* those with all REQUIRED tools, no symlinks and no conflict
  Fitting,    \* those the integration patch applies to
  Attempts,   \* of a command that uses the network
  Nothing

ASSUME RefreshShape ==
  /\ MaxCommits \in Nat \ {0} /\ Attempts \in Nat \ {0}
  /\ Regular \subseteq 1..MaxCommits /\ Fitting \subseteq 1..MaxCommits
  /\ Nothing \notin 1..MaxCommits
  /\ Nothing \notin [files : 1..MaxCommits, adapted : BOOLEAN, names : 1..MaxCommits, edited : BOOLEAN]

VARIABLES
  head,   \* of upstream
  asked,  \* what it was when the build began,
  before, \* and what .resolved-nap-tools was
  pc, why,
  attempt,
  commit, \* what ls-remote returned
  checkout, stage, previous, \* in the temporary directory
  output, \* .resolved-nap-tools
  manifest, \* what install-tools.py has read
  package \* the tools in the package

upstream == <<head, asked, before>>
work == <<commit, checkout, stage, previous>>
vars == <<upstream, pc, why, attempt, work, output, manifest, package>>

Commits == 1..MaxCommits
Directories == [files : Commits, adapted : BOOLEAN, names : Commits, edited : BOOLEAN]
Halted == {"idle", "failed", "done"}
Running == pc \notin Halted

Init ==
  /\ head = 1 /\ asked = 1 /\ before = Nothing
  /\ pc = "idle" /\ why = Nothing /\ attempt = 1
  /\ commit = Nothing /\ checkout = Nothing /\ stage = Nothing /\ previous = Nothing
  /\ output = Nothing /\ manifest = Nothing /\ package = Nothing

-----------------------------------------------------------------------------
(* Everyone else.                                                          *)

Push ==
  /\ head < MaxCommits /\ head' = head + 1
  /\ UNCHANGED <<asked, before, pc, why, attempt, work, output, manifest, package>>

(* A person edits a resolved tool, or the tests of the build do.           *)
Edit ==
  /\ pc \in Halted \cup {"test"} /\ output # Nothing /\ ~output.edited
  /\ output' = [output EXCEPT !.edited = TRUE]
  /\ UNCHANGED <<upstream, pc, why, attempt, work, manifest, package>>

(* The next build; its package directory is new.                           *)
Begin ==
  /\ ~Running /\ pc' = "query" /\ why' = Nothing /\ attempt' = 1
  /\ asked' = head /\ before' = output
  /\ commit' = Nothing /\ checkout' = Nothing /\ stage' = Nothing /\ previous' = Nothing
  /\ manifest' = Nothing /\ package' = Nothing
  /\ UNCHANGED <<head, output>>

(* Killed, or interrupted: in that case the temporary directory is removed *)
(* on the way out.  What a kill leaves of it, nobody looks for.            *)
Stop ==
  /\ Running /\ pc' = "failed" /\ why' = "stopped"
  /\ checkout' = Nothing /\ stage' = Nothing /\ previous' = Nothing
  /\ UNCHANGED <<upstream, attempt, commit, output, manifest, package>>

-----------------------------------------------------------------------------
(* refresh().                                                              *)

Fail(error) ==
  /\ pc' = "failed" /\ why' = error
  /\ checkout' = Nothing /\ stage' = Nothing /\ previous' = Nothing

(* Slip: one attempt too many.                                             *)
MoreByOne == attempt <= Attempts

More == attempt < Attempts

(* Slip: the count starts again before the last attempt.                   *)
CountedAgain == (attempt % (Attempts - 1)) + 1

Counted == attempt + 1

(* run(network=True): the command fails or times out.                      *)
Retry ==
  /\ pc \in {"query", "fetch"}
  /\ IF More THEN attempt' = Counted /\ UNCHANGED <<pc, why, checkout, stage, previous>>
             ELSE Fail("network") /\ UNCHANGED attempt
  /\ UNCHANGED <<upstream, commit, output, manifest, package>>

LsRemote ==
  /\ pc = "query" /\ pc' = "fetch" /\ attempt' = 1
  /\ commit' = head
  /\ UNCHANGED <<upstream, why, checkout, stage, previous, output, manifest, package>>

(* Slip: main is fetched, not the commit that was returned for it.         *)
FetchedOfMain == head

Fetched == commit

FetchCommit ==
  /\ pc = "fetch" /\ pc' = "check" /\ attempt' = 1
  /\ checkout' = Fetched
  /\ UNCHANGED <<upstream, why, commit, stage, previous, output, manifest, package>>

(* The files that were fetched are what the package expects of upstream.   *)
CheckTools ==
  /\ pc = "check"
  /\ IF checkout \in Regular THEN pc' = "stage" /\ UNCHANGED <<why, checkout, stage, previous>>
                             ELSE Fail("upstream")
  /\ UNCHANGED <<upstream, attempt, commit, output, manifest, package>>

(* A copy, the integration patch without fuzz, and the local files.        *)
Adapt ==
  /\ pc = "stage"
  /\ IF checkout \in Fitting
     THEN /\ pc' = "retire"
          /\ stage' = [files |-> checkout, adapted |-> TRUE, names |-> commit, edited |-> FALSE]
          /\ UNCHANGED <<why, checkout, previous>>
     ELSE Fail("upstream")
  /\ UNCHANGED <<upstream, attempt, commit, output, manifest, package>>

(* The disk is full, before the directory in use is touched.               *)
NoSpace ==
  /\ pc \in {"check", "stage"} /\ Fail("disk")
  /\ UNCHANGED <<upstream, attempt, commit, output, manifest, package>>

Retire ==
  /\ pc = "retire" /\ pc' = "promote"
  /\ previous' = output /\ output' = Nothing
  /\ UNCHANGED <<upstream, why, attempt, commit, checkout, stage, manifest, package>>

Promote ==
  /\ pc = "promote" /\ pc' = "test"
  /\ output' = stage
  /\ checkout' = Nothing /\ stage' = Nothing /\ previous' = Nothing
  /\ UNCHANGED <<upstream, why, attempt, commit, manifest, package>>

(* Slip: the error is reported, and the temporary directory goes with the  *)
(* previous tools in it.                                                   *)
RolledBackNever == output

RolledBack == previous

(* The second rename fails, and so may the one that undoes the first.      *)
PromoteFails ==
  /\ pc = "promote"
  /\ \/ output' = RolledBack /\ Fail("disk")
     \/ UNCHANGED output /\ Fail("rollback")
  /\ UNCHANGED <<upstream, attempt, commit, manifest, package>>

-----------------------------------------------------------------------------
(* build-tuning-package.sh and install-tools.py.                           *)

TestTools ==
  /\ pc = "test"
  /\ \/ pc' = "read" /\ UNCHANGED <<why, checkout, stage, previous>>
     \/ Fail("tests")
  /\ UNCHANGED <<upstream, attempt, commit, output, manifest, package>>

ReadManifest ==
  /\ pc = "read" /\ pc' = "verify"
  /\ manifest' = output.names
  /\ UNCHANGED <<upstream, why, attempt, work, output, package>>

(* --require-resolved: every hash of installed_sha256.                     *)
VerifyHashes ==
  /\ pc = "verify"
  /\ IF output.edited THEN Fail("changed") ELSE pc' = "install" /\ UNCHANGED <<why, checkout, stage, previous>>
  /\ UNCHANGED <<upstream, attempt, commit, output, manifest, package>>

Install ==
  /\ pc = "install" /\ pc' = "done"
  /\ package' = [output EXCEPT !.names = manifest]
  /\ UNCHANGED <<upstream, why, attempt, work, output, manifest>>

Build ==
  \/ LsRemote \/ FetchCommit \/ CheckTools \/ Adapt \/ Retire \/ Promote
  \/ TestTools \/ ReadManifest \/ VerifyHashes \/ Install
  \/ Retry \/ NoSpace \/ PromoteFails

Next == Push \/ Edit \/ Begin \/ Stop \/ Build

(* Commands have timeouts, and the script goes on.                         *)
Spec == Init /\ [][Next]_vars /\ WF_vars(Build)

-----------------------------------------------------------------------------
Places == {"query", "fetch", "check", "stage", "retire", "promote", "test", "read", "verify", "install"}
Errors == {"network", "upstream", "disk", "rollback", "tests", "changed", "stopped"}

TypeOK ==
  /\ head \in Commits /\ asked \in Commits
  /\ pc \in Places \cup Halted /\ why \in Errors \cup {Nothing}
  /\ attempt \in 1..Attempts
  /\ {commit, checkout, manifest} \subseteq Commits \cup {Nothing}
  /\ {before, stage, previous, output, package} \subseteq Directories \cup {Nothing}
  /\ pc = "promote" => stage # Nothing
  /\ pc \in {"test", "read", "verify", "install"} => output # Nothing

(* "main moving cannot mix files", "it is never used as an automatic       *)
(* fallback": the tools of a package are one commit of upstream, adapted   *)
(* and as they were resolved, the one their UPSTREAM.json and the version  *)
(* of the package name, and no older than the build.                       *)
PackageIsUpstream ==
  package # Nothing =>
    /\ package.adapted /\ ~package.edited
    /\ package.files = package.names
    /\ package.files \in Regular \cap Fitting
    /\ package.files >= asked

(* "A failed fetch/adaptation never replaces the last resolved directory": *)
(* nor does a disk that is full, unless it fails the rollback too.         *)
FailureKeepsOutput ==
  pc = "failed" /\ why \in {"network", "upstream", "disk"} =>
    \/ output = before
    \/ Nothing \notin {output, before} /\ [output EXCEPT !.edited = FALSE] = [before EXCEPT !.edited = FALSE]

(* A build comes to an end, however the network is.                        *)
Ends == Running ~> ~Running
=============================================================================
