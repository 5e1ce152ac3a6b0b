---------------------------- MODULE CreateCommand ----------------------------
(***************************************************************************)
(* `paywrap create`, run again and again into one directory: the prompts,  *)
(* the wallet and its prefunding, the files, git, and what is printed at   *)
(* the end.  A run may fail or be cut off at every await, and between runs *)
(* the user may follow the generated README, which says to copy the        *)
(* example of the secrets file over it.                                    *)
(***************************************************************************)
EXTENDS Scaffold, Naturals

CONSTANTS
  MaxRuns,      \* bound on runs of the command
  Histories,    \* the answers that the runs may be given, one after the other
  Enough(_, _)  \* Enough(h, n): bound: does history h end after n runs?

Runs == 1 .. MaxRuns

ASSUME CreateAssumption == MaxRuns \in Nat \ {0} /\ Histories \subseteq [Runs -> Answers]

\* What a path may hold besides the text of a run: nothing, what the user copied
\* there, or a text whose writing was cut off.
Nothing == 0
ByHand  == MaxRuns + 1
Torn    == MaxRuns + 2

\* The paths that may hold a private key.
SecretPaths == {Secrets(Normalize(a)) : a \in {b \in Answers : b.wallet}}

VARIABLES
  run,      \* the latest run; 0: none yet
  phase,    \* what it is doing; "idle": it has ended
  answers,  \* answers[n]: what run n was told
  how,      \* how[n]: how far run n has come
  funded,   \* the runs to whose wallet money was sent
  disk,     \* disk[f]: the run whose text path f holds
  printed,  \* the runs whose private key was printed
  staged,   \* staged[f]: what git's index holds of secrets path f
  committed \* the runs whose private key is in a commit

vars == <<run, phase, answers, how, funded, disk, printed, staged, committed>>

\* A run that stopped "early" did so before its last file was written; "late", before
\* its last word was printed.
Ends   == {"early", "late", "reported"}
Phases == {"idle", "prefund", "write", "install", "git", "report"}

TypeOK ==
  /\ run \in 0 .. MaxRuns
  /\ phase \in Phases
  /\ answers \in [Runs -> Answers]
  /\ how \in [Runs -> {"none", "running"} \cup Ends]
  /\ funded \subseteq Runs /\ printed \subseteq Runs /\ committed \subseteq Runs
  /\ disk \in [Paths -> 0 .. MaxRuns + 2]
  /\ staged \in [SecretPaths -> 0 .. MaxRuns + 2]

\* The configuration of run n.
Config(n)    == Normalize(answers[n])
HasWallet(n) == answers[n].wallet

\* A key is on disk only in private-key mode.
KeyOnDisk(n) == HasWallet(n) /\ Keyed(Config(n)) /\ disk[Secrets(Config(n))] = n

Init ==
  /\ run = 0 /\ phase = "idle"
  /\ answers \in Histories
  /\ how = [n \in Runs |-> "none"]
  /\ funded = {} /\ printed = {} /\ committed = {}
  /\ disk = [f \in Paths |-> Nothing]
  /\ staged = [f \in SecretPaths |-> Nothing]

EndAs(result) == phase' = "idle" /\ how' = [how EXCEPT ![run] = result]

\* The prompts.  Prefunding is offered for the session intent, as it was chosen.
Start ==
  /\ phase = "idle" /\ run < MaxRuns /\ ~Enough(answers, run)
  /\ run' = run + 1
  /\ how' = [how EXCEPT ![run'] = "running"]
  /\ phase' = IF answers[run'].intent = "session" /\ HasWallet(run') THEN "prefund" ELSE "write"
  /\ UNCHANGED <<answers, funded, disk, printed, staged, committed>>

PrefundDeclined ==
  /\ phase = "prefund" /\ phase' = "write"
  /\ UNCHANGED <<run, answers, how, funded, disk, printed, staged, committed>>

PrefundSent ==
  /\ phase = "prefund" /\ phase' = "write"
  /\ funded' = funded \cup {run}
  /\ UNCHANGED <<run, answers, how, disk, printed, staged, committed>>

\* The transfer throws, before or after it was sent, or the user gives up.
PrefundThrows ==
  /\ phase = "prefund"
  /\ funded' \in {funded, funded \cup {run}}
  /\ EndAs("early")
  /\ UNCHANGED <<run, answers, disk, printed, staged, committed>>

\* The first k files are written and the next one may be torn; the others stay.
WrittenUpTo(k, next) ==
  LET order == FileOrder(Config(run))
  IN [f \in Paths |->
        IF f \in ElementsOf(SubSeq(order, 1, k)) THEN run
        ELSE IF k < Len(order) /\ f = order[k + 1] /\ next = "torn" THEN Torn
        ELSE disk[f]]

\* A mistake the properties must notice: files that exist are not written again.
WriteMissing ==
  /\ phase = "write" /\ phase' = "install"
  /\ disk' = [f \in Paths |-> IF f \in Files(Config(run)) /\ disk[f] = Nothing THEN run ELSE disk[f]]
  /\ UNCHANGED <<run, answers, how, funded, printed, staged, committed>>

Write ==
  /\ phase = "write" /\ phase' = "install"
  /\ disk' = [f \in Paths |-> IF f \in Files(Config(run)) THEN run ELSE disk[f]]
  /\ UNCHANGED <<run, answers, how, funded, printed, staged, committed>>

\* The directory is one of the workspace's own, a file cannot be written, or the
\* process ends.
WriteStops ==
  /\ phase = "write"
  /\ \E k \in 0 .. Len(FileOrder(Config(run))) - 1, next \in {"untouched", "torn"} :
       disk' = WrittenUpTo(k, next)
  /\ EndAs("early")
  /\ UNCHANGED <<run, answers, funded, printed, staged, committed>>

\* pnpm install; a failure is reported and the run goes on.
Install ==
  /\ phase = "install" /\ phase' = "git"
  /\ UNCHANGED <<run, answers, how, funded, disk, printed, staged, committed>>

\* git init, and git add -A: a path that is in the index already is added again,
\* whatever .gitignore says by now.
Added ==
  [f \in SecretPaths |->
     IF staged[f] # Nothing \/ f \notin GitIgnore(Config(run)) THEN disk[f] ELSE staged[f]]

\* git commit: everything in the index.
GitCommits ==
  /\ phase = "git" /\ phase' = "report"
  /\ staged' = Added
  /\ committed' = committed \cup
       {n \in Runs : /\ HasWallet(n) /\ Keyed(Config(n))
                     /\ Added[Secrets(Config(n))] = n}
  /\ UNCHANGED <<run, answers, how, funded, disk, printed>>

\* No git, or the commit fails and the index stays: the error is swallowed.
GitFails ==
  /\ phase = "git" /\ phase' = "report"
  /\ staged' \in {staged, Added}
  /\ UNCHANGED <<run, answers, how, funded, disk, printed, committed>>

\* In address-only mode the private key is printed here and nowhere else.
Report ==
  /\ phase = "report"
  /\ EndAs("reported")
  /\ printed' = IF HasWallet(run) /\ ~Keyed(Config(run)) THEN printed \cup {run} ELSE printed
  /\ UNCHANGED <<run, answers, funded, disk, staged, committed>>

\* The user interrupts the installation, or the process ends otherwise; git's add may
\* have been done.
CutOff ==
  /\ phase \in {"install", "git", "report"}
  /\ EndAs("late")
  /\ staged' \in {staged} \cup When(phase = "git", {Added})
  /\ UNCHANGED <<run, answers, funded, disk, printed, committed>>

\* The first step of the generated README.
CopyExample ==
  /\ phase = "idle" /\ run > 0
  /\ LET example == IF Workers(Config(run)) THEN ".dev.vars.example" ELSE ".env.example"
     IN  disk[example] \in Runs /\ disk' = [disk EXCEPT ![Secrets(Config(run))] = ByHand]
  /\ UNCHANGED <<run, phase, answers, how, funded, printed, staged, committed>>

Next ==
  \/ Start \/ PrefundDeclined \/ PrefundSent \/ PrefundThrows
  \/ Write \/ WriteStops \/ Install \/ GitCommits \/ GitFails \/ Report \/ CutOff
  \/ CopyExample

Spec == Init /\ [][Next]_vars

-----------------------------------------------------------------------------
\* Something else has been written over the secrets of run n.
WrittenOver(n) == disk[Secrets(Config(n))] \in (n + 1) .. Torn

\* Whoever was given a wallet has its key, on disk or on the screen, until the secrets
\* file is written over.  Two kinds of runs are outside.  One that stopped "early" has
\* its key nowhere, even if money was sent to the wallet by then.  And an address-only
\* run that stopped before its last word has none either, but no money was sent to it.
KeysAreKept ==
  \A n \in Runs :
    HasWallet(n) /\ how[n] \in {"late", "reported"} =>
      \/ KeyOnDisk(n) \/ n \in printed \/ WrittenOver(n)
      \/ how[n] = "late" /\ ~Keyed(Config(n)) /\ n \notin funded

\* A private key gets into a commit only where a Worker's directory was scaffolded
\* again for another framework, whose .gitignore does not know .dev.vars: the key of
\* the Worker before, or of one after, for git goes on tracking the file.
Retargeted(l, m) == l < m /\ Workers(Config(l)) /\ ~Workers(Config(m))
KeysStayPrivate ==
  \A n \in committed :
    Workers(Config(n)) /\ \E l \in 1 .. n, m \in 1 .. run : Retargeted(l, m)

\* The texts in the directory, and the configuration each was generated for.
Generated == {f \in Paths : disk[f] \in Runs}
ConfigOf(f) == Config(disk[f])

\* tsc --noEmit, which the generated Dockerfile runs before every deployment.
Typechecks ==
  /\ \A f \in Generated :
       LET text == Text(f, ConfigOf(f))
       IN  /\ text.imports \subseteq Generated
           /\ text.packages \subseteq Dependencies(ConfigOf("package.json"))
           /\ text.env # {} => /\ "src/core/env.ts" \in Generated
                               /\ text.env \subseteq EnvSchema(ConfigOf("src/core/env.ts"))
           /\ text.ctx # {} => text.ctx \subseteq AppContext(ConfigOf("src/app/app-context.ts"))
  /\ "src/index.ts" \in Generated =>
       ContextBuilt(ConfigOf("src/index.ts")) = AppContext(ConfigOf("src/app/app-context.ts"))

\* Every variable that the service asks for is in the example.
Documented ==
  "src/core/env.ts" \in Generated =>
    EnvSchema(ConfigOf("src/core/env.ts")) \subseteq EnvExample(ConfigOf(".env.example"))

\* Does the directory of configuration c keep what one of configuration d needs?
Covers(c, d) ==
  /\ Workers(c) = Workers(d)
  /\ UsePg(d) => UsePg(c)
  /\ UseRedis(d) => UseRedis(c)

\* Running create again repairs what a failed run has left and adds to what another
\* one has made: the directory compiles and its environment is documented, unless it
\* has no framework, or a charge service was given Postgres.
Complete == how[run] \in {"late", "reported"} \/ phase \in {"install", "git", "report"}
RerunRepairs ==
  /\ run > 0 /\ Complete
  /\ \A f \in Generated : Covers(Config(run), ConfigOf(f))
  /\ \A f \in Paths : disk[f] # Torn
  => /\ Typechecks <=> /\ Config(run).framework # "none"
                       /\ Charge(Config(run)) => Config(run).storage = "none"
     /\ Documented
===============================================================================
