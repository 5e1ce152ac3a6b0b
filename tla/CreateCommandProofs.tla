-------------------------- MODULE CreateCommandProofs --------------------------
(***************************************************************************)
(* For any number of runs with any answers: the command's variables keep   *)
(* their types, no key is lost but where KeysAreKept says so, and none is  *)
(* committed but where KeysStayPrivate says so; and a run that has written *)
(* its files leaves a directory that compiles, as RerunRepairs says.       *)
(***************************************************************************)
EXTENDS CreateCommand, TLAPS

\* The run under way has the number `run`; the others have ended or not begun.
PhaseInv ==
  /\ phase # "idle" => run \in Runs
  /\ \A n \in Runs : how[n] \in Ends => n <= run
  /\ phase # "idle" => how[run] = "running"

\* No path holds the text of a run to come.
DiskInv == \A f \in Paths : disk[f] \in Runs => disk[f] <= run

\* Once all files are written, the key of the run under way is among them.
WrittenInv ==
  phase \in {"install", "git", "report"} /\ HasWallet(run) /\ Keyed(Config(run)) => KeyOnDisk(run)

\* Money is sent to wallets whose key the service holds.
FundedInv == \A n \in funded : n <= run /\ Keyed(Config(n))
PrefundInv == phase = "prefund" => Keyed(Config(run))

CreateInv ==
  /\ TypeOK /\ PhaseInv /\ DiskInv /\ WrittenInv /\ FundedInv /\ PrefundInv
  /\ KeysAreKept

\* Every configuration that answers lead to is one of the generator's.
LEMMA NormalizeIsConfig ==
  ASSUME NEW a \in Answers
  PROVE  /\ Normalize(a) \in Configs
         /\ Normalize(a).wallet = a.wallet
         /\ a.intent = "session" => Keyed(Normalize(a))
  BY DEF Answers, Normalize, Configs, Workers, Keyed

\* The secrets of a run with a wallet are one of its files, and have a place on disk.
LEMMA SecretsAreWritten ==
  ASSUME NEW a \in Answers, a.wallet
  PROVE  /\ Secrets(Normalize(a)) \in Files(Normalize(a))
         /\ Secrets(Normalize(a)) \in Paths
<1>1. Normalize(a).wallet BY NormalizeIsConfig
<1>2. Secrets(Normalize(a)) \in Files(Normalize(a)) BY <1>1 DEF Files
<1> QED BY <1>2 DEF Paths

\* The values a path may take.
LEMMA Values ==
  /\ MaxRuns \in Nat /\ Runs = 1 .. MaxRuns
  /\ Nothing = 0 /\ ByHand = MaxRuns + 1 /\ Torn = MaxRuns + 2
  BY CreateAssumption DEF Runs, Nothing, ByHand, Torn

\* What git add -A leaves in the index.
LEMMA SecretPathFacts ==
  /\ SecretPaths \subseteq Paths
  /\ SecretPaths \subseteq {".env", ".dev.vars"}
  /\ TypeOK => \A n \in Runs : HasWallet(n) => Secrets(Config(n)) \in SecretPaths
<1>1. SecretPaths \subseteq Paths
  BY SecretsAreWritten DEF SecretPaths
<1>2. SecretPaths \subseteq {".env", ".dev.vars"}
  BY DEF SecretPaths, Secrets
<1>3. TypeOK => \A n \in Runs : HasWallet(n) => Secrets(Config(n)) \in SecretPaths
  BY DEF TypeOK, SecretPaths, HasWallet, Config
<1> QED BY <1>1, <1>2, <1>3

LEMMA AddedType == TypeOK => Added \in [SecretPaths -> 0 .. MaxRuns + 2]
  BY SecretPathFacts DEF TypeOK, Added

LEMMA CreateInitInv == Init => CreateInv
<1> SUFFICES ASSUME Init PROVE CreateInv OBVIOUS
<1> USE Values DEF Init
<1>1. TypeOK BY CreateAssumption DEF TypeOK, Phases
<1>2. PhaseInv BY DEF PhaseInv, Ends
<1>3. DiskInv /\ WrittenInv /\ FundedInv /\ PrefundInv
  BY DEF DiskInv, WrittenInv, FundedInv, PrefundInv
<1>4. KeysAreKept BY DEF KeysAreKept
<1> QED BY <1>1, <1>2, <1>3, <1>4 DEF CreateInv

\* The action under consideration leaves the answers alone, and secrets have a place.
LEMMA AnswersStay ==
  ASSUME TypeOK, [Next]_vars
  PROVE  /\ answers' = answers
         /\ \A n \in Runs : HasWallet(n) => Secrets(Config(n)) \in Paths
         /\ \A n \in Runs : Config(n)' = Config(n) /\ HasWallet(n)' = HasWallet(n)
<1>1. answers' = answers
  BY DEF Next, vars, Start, PrefundDeclined, PrefundSent, PrefundThrows, Write, WriteStops,
         Install, GitCommits, GitFails, Report, CutOff, CopyExample
<1>2. \A n \in Runs : HasWallet(n) => Secrets(Config(n)) \in Paths
  BY SecretsAreWritten DEF TypeOK, HasWallet, Config
<1>3. \A n \in Runs : Config(n)' = Config(n) /\ HasWallet(n)' = HasWallet(n)
  BY <1>1 DEF Config, HasWallet
<1> QED BY <1>1, <1>2, <1>3

LEMMA CreateTypeStep == TypeOK /\ PhaseInv /\ [Next]_vars => TypeOK'
<1> SUFFICES ASSUME TypeOK, PhaseInv, [Next]_vars PROVE TypeOK' OBVIOUS
<1> USE Values DEF TypeOK, Phases, Ends, PhaseInv
<1>1. CASE Start           BY <1>1 DEF Start
<1>2. CASE PrefundDeclined BY <1>2 DEF PrefundDeclined
<1>3. CASE PrefundSent     BY <1>3 DEF PrefundSent
<1>4. CASE PrefundThrows   BY <1>4 DEF PrefundThrows, EndAs
<1>5. CASE Write           BY <1>5 DEF Write
<1>6. CASE WriteStops      BY <1>6 DEF WriteStops, WrittenUpTo, EndAs
<1>7. CASE Install         BY <1>7 DEF Install
<1>8. CASE GitCommits      BY <1>8, AddedType DEF GitCommits
<1>9. CASE GitFails        BY <1>9, AddedType DEF GitFails
<1>10. CASE Report         BY <1>10 DEF Report, EndAs
<1>11. CASE CutOff         BY <1>11, AddedType DEF CutOff, EndAs, When
<1>12. CASE CopyExample
  <2>1. disk' = [disk EXCEPT ![Secrets(Config(run))] = ByHand] BY <1>12 DEF CopyExample
  <2>2. ByHand \in 0 .. MaxRuns + 2 OBVIOUS
  <2>3. disk' \in [Paths -> 0 .. MaxRuns + 2]
    <3> HIDE Values
    <3> QED BY <2>1, <2>2
  <2> QED BY <1>12, <2>3 DEF CopyExample
<1>13. CASE UNCHANGED vars BY <1>13 DEF vars
<1> QED
  BY <1>1, <1>2, <1>3, <1>4, <1>5, <1>6, <1>7, <1>8, <1>9, <1>10, <1>11, <1>12, <1>13 DEF Next

LEMMA CreatePhaseStep == TypeOK /\ PhaseInv /\ [Next]_vars => PhaseInv'
<1> SUFFICES ASSUME TypeOK, PhaseInv, [Next]_vars PROVE PhaseInv' OBVIOUS
<1> USE Values DEF TypeOK, Ends, PhaseInv
<1>1. CASE Start BY <1>1 DEF Start
<1>2. CASE PrefundDeclined \/ PrefundSent \/ Write \/ Install \/ GitCommits \/ GitFails
  BY <1>2 DEF PrefundDeclined, PrefundSent, Write, Install, GitCommits, GitFails
<1>3. CASE PrefundThrows \/ WriteStops \/ Report \/ CutOff
  BY <1>3 DEF PrefundThrows, WriteStops, Report, CutOff, EndAs
<1>4. CASE CopyExample \/ UNCHANGED vars BY <1>4 DEF CopyExample, vars
<1> QED BY <1>1, <1>2, <1>3, <1>4 DEF Next

LEMMA CreateDiskStep == TypeOK /\ PhaseInv /\ DiskInv /\ [Next]_vars => DiskInv'
<1> SUFFICES ASSUME TypeOK, PhaseInv, DiskInv, [Next]_vars PROVE DiskInv' OBVIOUS
<1> USE Values DEF TypeOK, PhaseInv, DiskInv
<1>1. CASE Start BY <1>1 DEF Start
<1>2. CASE Write BY <1>2 DEF Write
<1>3. CASE WriteStops BY <1>3 DEF WriteStops, WrittenUpTo
<1>4. CASE CopyExample BY <1>4 DEF CopyExample
<1>5. CASE UNCHANGED <<run, disk>> BY <1>5
<1> QED
  BY <1>1, <1>2, <1>3, <1>4, <1>5
  DEF Next, vars, PrefundDeclined, PrefundSent, PrefundThrows, Install, GitCommits, GitFails,
      Report, CutOff

LEMMA CreateWrittenStep ==
  TypeOK /\ PhaseInv /\ WrittenInv /\ [Next]_vars => WrittenInv'
<1> SUFFICES ASSUME TypeOK, PhaseInv, WrittenInv, [Next]_vars PROVE WrittenInv' OBVIOUS
<1> USE Values DEF WrittenInv
<1>1. CASE Start \/ PrefundDeclined \/ PrefundSent
  BY <1>1 DEF Start, PrefundDeclined, PrefundSent
<1>2. CASE Write
  <2>1. phase' = "install" /\ run' = run /\ run \in Runs /\ answers' = answers
    BY <1>2 DEF Write, PhaseInv
  <2>2. HasWallet(run) =>
          Secrets(Config(run)) \in Files(Config(run)) /\ Secrets(Config(run)) \in Paths
    BY <2>1, SecretsAreWritten DEF TypeOK, HasWallet, Config
  <2> QED BY <1>2, <2>1, <2>2 DEF Write, KeyOnDisk, HasWallet, Config
<1>3. CASE Install \/ GitCommits \/ GitFails
  BY <1>3 DEF Install, GitCommits, GitFails, KeyOnDisk, HasWallet, Config
<1>4. CASE PrefundThrows \/ WriteStops \/ Report \/ CutOff
  BY <1>4 DEF PrefundThrows, WriteStops, Report, CutOff, EndAs
<1>5. CASE CopyExample BY <1>5 DEF CopyExample
<1>6. CASE UNCHANGED vars BY <1>6 DEF vars, KeyOnDisk, HasWallet, Config
<1> QED BY <1>1, <1>2, <1>3, <1>4, <1>5, <1>6 DEF Next

LEMMA CreateFundedStep ==
  TypeOK /\ PhaseInv /\ FundedInv /\ PrefundInv /\ [Next]_vars => FundedInv' /\ PrefundInv'
<1> SUFFICES ASSUME TypeOK, PhaseInv, FundedInv, PrefundInv, [Next]_vars
             PROVE  FundedInv' /\ PrefundInv'
  OBVIOUS
<1>0. \A n \in Runs : Config(n)' = Config(n) BY AnswersStay
<1> USE Values DEF TypeOK, PhaseInv, FundedInv, PrefundInv
<1>1. CASE Start
  <2>1. run' \in Runs /\ run' = run + 1 BY <1>1 DEF Start
  <2>2. phase' = "prefund" => Keyed(Config(run'))
    BY <1>1, <2>1, NormalizeIsConfig DEF Start, Config
  <2> QED BY <1>0, <1>1, <2>1, <2>2, AnswersStay DEF Start, Config
<1>2. CASE PrefundDeclined BY <1>2 DEF PrefundDeclined, Config
<1>3. CASE PrefundSent \/ PrefundThrows
  <2>1. /\ phase = "prefund" /\ phase' # "prefund" /\ run' = run /\ answers' = answers
        /\ funded' \subseteq funded \cup {run}
    BY <1>3 DEF PrefundSent, PrefundThrows, EndAs
  <2>2. \A n \in funded' : n <= run /\ Keyed(Config(n)) BY <2>1
  <2> QED BY <2>1, <2>2 DEF Config
<1>4. CASE UNCHANGED <<run, answers, funded>> /\ (phase' = "prefund" => phase = "prefund")
  BY <1>0, <1>4 DEF Config
<1> QED
  BY <1>1, <1>2, <1>3, <1>4
  DEF Next, vars, Write, WriteStops, Install, GitCommits, GitFails, Report, CutOff, CopyExample,
      EndAs

\* A path changes hands only to a later run, the user or a torn write.
LEMMA DiskMovesOn ==
  ASSUME TypeOK, PhaseInv, [Next]_vars,
         NEW n \in Runs, how[n] \in Ends, NEW f \in Paths
  PROVE  disk'[f] = disk[f] \/ disk'[f] \in n + 1 .. Torn
<1> USE Values DEF TypeOK, PhaseInv, Ends
<1>1. n <= run /\ (phase # "idle" => n # run) OBVIOUS
<1>2. CASE Write BY <1>1, <1>2 DEF Write
<1>3. CASE WriteStops BY <1>1, <1>3 DEF WriteStops, WrittenUpTo
<1>4. CASE CopyExample BY <1>1, <1>4 DEF CopyExample
<1>5. CASE disk' = disk BY <1>5
<1> QED
  BY <1>2, <1>3, <1>4, <1>5
  DEF Next, vars, Start, PrefundDeclined, PrefundSent, PrefundThrows, Install, GitCommits,
      GitFails, Report, CutOff

\* What KeysAreKept says of one run.
Kept(n) ==
  HasWallet(n) /\ how[n] \in {"late", "reported"} =>
    \/ KeyOnDisk(n) \/ n \in printed \/ WrittenOver(n)
    \/ how[n] = "late" /\ ~Keyed(Config(n)) /\ n \notin funded

LEMMA CreateKeptStep == CreateInv /\ [Next]_vars => KeysAreKept'
<1> SUFFICES ASSUME CreateInv, [Next]_vars, NEW n \in Runs PROVE Kept(n)'
  BY DEF KeysAreKept, Kept
<1> USE Values DEF CreateInv
<1>0. /\ answers' = answers /\ Config(n)' = Config(n) /\ HasWallet(n)' = HasWallet(n)
      /\ HasWallet(n) => Secrets(Config(n)) \in Paths
  BY AnswersStay
<1>1. printed \subseteq printed'
  BY DEF Next, vars, Start, PrefundDeclined, PrefundSent, PrefundThrows, Write, WriteStops,
         Install, GitCommits, GitFails, Report, CutOff, CopyExample
<1>2. CASE how[n] \in Ends
  \* The run has ended: it stays as it is, and only its file can change.
  <2>1. how'[n] = how[n] /\ (n \in funded' => n \in funded)
    BY <1>2 DEF TypeOK, PhaseInv, Ends, Next, vars, Start, PrefundDeclined, PrefundSent,
       PrefundThrows, Write, WriteStops, Install, GitCommits, GitFails, Report, CutOff,
       CopyExample, EndAs
  <2>2. HasWallet(n) /\ (KeyOnDisk(n) \/ WrittenOver(n)) => (KeyOnDisk(n) \/ WrittenOver(n))'
    <3> SUFFICES ASSUME HasWallet(n), KeyOnDisk(n) \/ WrittenOver(n)
                 PROVE  (KeyOnDisk(n) \/ WrittenOver(n))'
      OBVIOUS
    <3> DEFINE f == Secrets(Config(n))
    <3>1. disk'[f] = disk[f] \/ disk'[f] \in n + 1 .. Torn
      BY <1>0, <1>2, DiskMovesOn
    <3>2. WrittenOver(n)' <=> disk'[f] \in n + 1 .. Torn
      BY <1>0 DEF WrittenOver
    <3>3. KeyOnDisk(n)' <=> (HasWallet(n) /\ Keyed(Config(n)) /\ disk'[f] = n)
      BY <1>0 DEF KeyOnDisk
    <3> QED BY <3>1, <3>2, <3>3 DEF KeyOnDisk, WrittenOver
  <2>3. Kept(n) BY DEF KeysAreKept, Kept
  <2> QED BY <1>0, <1>1, <2>1, <2>2, <2>3 DEF Kept
<1>3. CASE how[n] \notin Ends /\ how'[n] \in {"late", "reported"}
  \* The run ends with all its files written.
  <2>1. n = run /\ phase \in {"install", "git", "report"} /\ disk' = disk /\ (Report \/ CutOff)
    BY <1>3 DEF TypeOK, PhaseInv, Ends, Next, vars, Start, PrefundDeclined, PrefundSent,
       PrefundThrows, Write, WriteStops, Install, GitCommits, GitFails, Report, CutOff,
       CopyExample, EndAs
  <2>2. CASE Keyed(Config(n))
    <3>1. HasWallet(n) => KeyOnDisk(n) BY <2>1, <2>2 DEF WrittenInv
    <3> QED BY <1>0, <2>1, <3>1 DEF Kept, KeyOnDisk
  <2>3. CASE ~Keyed(Config(n))
    <3>1. n \notin funded BY <2>3 DEF FundedInv
    <3>2. CASE Report BY <1>0, <2>1, <2>3, <3>2 DEF Report, Kept
    <3>3. CASE CutOff
      <4>1. how'[n] = "late" /\ funded' = funded
        BY <2>1, <3>3 DEF CutOff, EndAs, TypeOK, PhaseInv
      <4> QED BY <1>0, <2>3, <3>1, <4>1 DEF Kept
    <3> QED BY <2>1, <3>2, <3>3
  <2> QED BY <2>2, <2>3
<1>4. CASE how'[n] \notin {"late", "reported"} BY <1>4 DEF Kept
<1> QED BY <1>2, <1>3, <1>4

LEMMA CreateInvInductive == CreateInv /\ [Next]_vars => CreateInv'
  BY CreateTypeStep, CreatePhaseStep, CreateDiskStep, CreateWrittenStep, CreateFundedStep,
     CreateKeptStep
  DEF CreateInv

\* The variables of the command keep their types.
THEOREM CreateTypeCorrect == Spec => []TypeOK
<1>1. CreateInv => TypeOK BY DEF CreateInv
<1> QED BY <1>1, CreateInitInv, CreateInvInductive, PTL DEF Spec

\* However often create is run, failed or interrupted in a directory, the key of a run
\* that wrote its files is lost only where KeysAreKept says so.
THEOREM KeysAlwaysKept == Spec => []KeysAreKept
<1>1. CreateInv => KeysAreKept BY DEF CreateInv
<1> QED BY <1>1, CreateInitInv, CreateInvInductive, PTL DEF Spec

-----------------------------------------------------------------------------
(* What the directory holds.                                               *)

\* The files by name.
BaseNames ==
  {"package.json", "tsconfig.json", "biome.json", "vitest.config.ts", ".env.example",
   ".gitignore", "Dockerfile", "README.md", "src/index.ts", "src/app/app-context.ts",
   "src/app/build-app.ts", "src/core/env.ts", "src/routes/things.ts",
   "src/routes/health.ts", "src/routes/wellknown.ts", "src/setup/index.ts"}
WorkersNames ==
  {"package.json", "tsconfig.json", "biome.json", "wrangler.toml", ".dev.vars.example",
   ".gitignore", "README.md", "src/worker.ts"}
DbNames ==
  {"src/db/client.ts", "src/db/migrate.ts", "src/models/thing.ts", "drizzle.config.ts"}
QueueNames == {"src/worker/queue.ts", "src/worker/index.ts", "src/worker/start.ts"}
Job(c) == IF Charge(c) THEN "src/worker/jobs/reaper-job.ts"
                       ELSE "src/worker/jobs/session-settle-job.ts"

\* The elements of a concatenation, and of a prefix.
LEMMA ConcatElements ==
  ASSUME NEW S, NEW s \in Seq(S), NEW t \in Seq(S)
  PROVE  /\ s \o t \in Seq(S)
         /\ ElementsOf(s \o t) = ElementsOf(s) \cup ElementsOf(t)
<1> DEFINE u == s \o t
<1>1. /\ u \in Seq(S)
      /\ DOMAIN s = 1 .. Len(s) /\ DOMAIN t = 1 .. Len(t) /\ DOMAIN u = 1 .. Len(s) + Len(t)
      /\ Len(s) \in Nat /\ Len(t) \in Nat
      /\ \A i \in 1 .. Len(s) + Len(t) : u[i] = IF i <= Len(s) THEN s[i] ELSE t[i - Len(s)]
  OBVIOUS
<1> HIDE DEF u
<1>2. \A i \in DOMAIN s : i \in DOMAIN u /\ u[i] = s[i]
  BY <1>1
<1>3. \A i \in DOMAIN t : Len(s) + i \in DOMAIN u /\ u[Len(s) + i] = t[i]
  BY <1>1
<1>4. ASSUME NEW i \in DOMAIN u
      PROVE  u[i] \in ElementsOf(s) \/ u[i] \in ElementsOf(t)
  <2>1. CASE i <= Len(s)
    BY <1>1, <2>1 DEF ElementsOf
  <2>2. CASE i > Len(s)
    <3>1. i - Len(s) \in DOMAIN t /\ u[i] = t[i - Len(s)]
      BY <1>1, <2>2
    <3> QED
      BY <3>1 DEF ElementsOf
  <2> QED
    BY <1>1, <2>1, <2>2
<1>5. ElementsOf(u) = ElementsOf(s) \cup ElementsOf(t)
  BY <1>2, <1>3, <1>4 DEF ElementsOf
<1> QED
  BY <1>1, <1>5 DEF u

LEMMA PrefixElements ==
  ASSUME NEW S, NEW s \in Seq(S), NEW k \in 0 .. Len(s)
  PROVE  ElementsOf(SubSeq(s, 1, k)) \subseteq ElementsOf(s)
<1>1. DOMAIN SubSeq(s, 1, k) = 1 .. k /\ \A i \in 1 .. k : SubSeq(s, 1, k)[i] = s[i]
  OBVIOUS
<1>2. 1 .. k \subseteq DOMAIN s
  OBVIOUS
<1> QED
  BY <1>1, <1>2 DEF ElementsOf

\* Which files a configuration has.
AllNames ==
  BaseNames \cup WorkersNames \cup DbNames \cup QueueNames
    \cup {"src/services/thing-client.ts", "src/worker/jobs/reaper-job.ts",
          "src/worker/jobs/session-settle-job.ts", ".dev.vars", ".env"}

LEMMA FilesByName ==
  ASSUME NEW c \in Configs
  PROVE  /\ MainFiles(c) \in Seq(AllNames)
         /\ ElementsOf(MainFiles(c)) =
              IF Workers(c) THEN WorkersNames
              ELSE BaseNames \cup When(Charge(c), {"src/services/thing-client.ts"})
                     \cup When(UsePg(c), DbNames)
                     \cup When(UseRedis(c), QueueNames \cup {Job(c)})
<1>0. ASSUME NEW S \in SUBSET AllNames, NEW s \in Seq(S) PROVE s \in Seq(AllNames)
  OBVIOUS
<1>1. BaseFiles \in Seq(AllNames) /\ ElementsOf(BaseFiles) = BaseNames
  <2>1. BaseFiles \in Seq(BaseNames)
    BY DEF BaseFiles, BaseNames
  <2>2. ElementsOf(BaseFiles) = BaseNames
    BY DEF BaseFiles, BaseNames, ElementsOf
  <2> QED
    BY <1>0, <2>1, <2>2 DEF AllNames
<1>2. WorkersFiles \in Seq(AllNames) /\ ElementsOf(WorkersFiles) = WorkersNames
  <2>1. WorkersFiles \in Seq(WorkersNames)
    BY DEF WorkersFiles, WorkersNames
  <2>2. ElementsOf(WorkersFiles) = WorkersNames
    BY DEF WorkersFiles, WorkersNames, ElementsOf
  <2> QED
    BY <1>0, <2>1, <2>2 DEF AllNames
<1>3. /\ IntentFiles(c) \in Seq(AllNames)
      /\ ElementsOf(IntentFiles(c)) =
           When(Charge(c), {"src/services/thing-client.ts"}) \cup When(UsePg(c), DbNames)
  <2>1. CASE Charge(c)
    BY <2>1 DEF IntentFiles, ElementsOf, AllNames, When, Charge, UsePg
  <2>2. CASE UsePg(c)
    BY <2>2 DEF IntentFiles, ElementsOf, AllNames, When, Charge, UsePg, DbNames
  <2>3. CASE ~Charge(c) /\ ~UsePg(c)
    BY <2>3 DEF IntentFiles, ElementsOf, When
  <2> QED
    BY <2>1, <2>2, <2>3
<1>4. /\ QueueFiles(c) \in Seq(AllNames)
      /\ ElementsOf(QueueFiles(c)) = When(UseRedis(c), QueueNames \cup {Job(c)})
  <2>1. CASE UseRedis(c)
    <3>1. Job(c) \in AllNames
      BY DEF Job, AllNames
    <3>2. QueueFiles(c) = <<"src/worker/queue.ts", "src/worker/index.ts", "src/worker/start.ts",
                            Job(c)>>
      BY <2>1 DEF QueueFiles, Job
    <3>3. "src/worker/queue.ts" \in AllNames /\ "src/worker/index.ts" \in AllNames
          /\ "src/worker/start.ts" \in AllNames
      BY DEF AllNames, QueueNames
    <3> QED
      BY <2>1, <3>1, <3>2, <3>3 DEF ElementsOf, When, QueueNames
  <2>2. CASE ~UseRedis(c)
    BY <2>2 DEF QueueFiles, ElementsOf, When
  <2> QED
    BY <2>1, <2>2
<1>5. /\ NodeFiles(c) \in Seq(AllNames)
      /\ ElementsOf(NodeFiles(c)) =
           ElementsOf(BaseFiles) \cup ElementsOf(IntentFiles(c)) \cup ElementsOf(QueueFiles(c))
  <2>1. /\ BaseFiles \o IntentFiles(c) \in Seq(AllNames)
        /\ ElementsOf(BaseFiles \o IntentFiles(c)) =
             ElementsOf(BaseFiles) \cup ElementsOf(IntentFiles(c))
    BY <1>1, <1>3, ConcatElements
  <2> DEFINE first == BaseFiles \o IntentFiles(c)
  <2>2. NodeFiles(c) = first \o QueueFiles(c)
    BY DEF NodeFiles
  <2> HIDE DEF first
  <2>3. first \in Seq(AllNames)
    BY <2>1 DEF first
  <2>4. /\ first \o QueueFiles(c) \in Seq(AllNames)
        /\ ElementsOf(first \o QueueFiles(c)) = ElementsOf(first) \cup ElementsOf(QueueFiles(c))
    BY <1>4, <2>3, ConcatElements, Zenon
  <2> QED
    BY <2>1, <2>2, <2>4 DEF first
<1> QED
  BY <1>1, <1>2, <1>3, <1>4, <1>5 DEF MainFiles

\* No prefix of the writing order holds a file that is not the configuration's.
LEMMA OrderIsFiles ==
  ASSUME NEW c \in Configs
  PROVE  /\ FileOrder(c) \in Seq(AllNames)
         /\ ElementsOf(FileOrder(c)) = Files(c)
<1> DEFINE last == IF c.wallet THEN <<Secrets(c)>> ELSE <<>>
<1>1. /\ last \in Seq(AllNames)
      /\ ElementsOf(last) = IF c.wallet THEN {Secrets(c)} ELSE {}
  <2>1. Secrets(c) \in AllNames
    BY DEF Secrets, AllNames
  <2> QED
    BY <2>1 DEF ElementsOf
<1>2. FileOrder(c) = MainFiles(c) \o last
  BY DEF FileOrder
<1> HIDE DEF last
<1>3. MainFiles(c) \in Seq(AllNames)
  BY FilesByName
<1>4. /\ MainFiles(c) \o last \in Seq(AllNames)
      /\ ElementsOf(MainFiles(c) \o last) = ElementsOf(MainFiles(c)) \cup ElementsOf(last)
  BY <1>1, <1>3, ConcatElements, Zenon
<1> QED
  BY <1>1, <1>2, <1>4 DEF Files

\* What a run's configuration is like, and where its files go.
LEMMA ConfigShape ==
  ASSUME TypeOK, NEW n \in Runs
  PROVE  /\ Config(n) \in Configs
         /\ Workers(Config(n)) => /\ Charge(Config(n)) /\ Config(n).storage = "none"
                                  /\ ~UseRedis(Config(n))
         /\ Files(Config(n)) \subseteq Paths
<1>1. answers[n] \in Answers
  BY DEF TypeOK
<1>2. Config(n) \in Configs
  BY <1>1, NormalizeIsConfig DEF Config
<1>3. Workers(Config(n)) => /\ Charge(Config(n)) /\ Config(n).storage = "none"
                            /\ ~UseRedis(Config(n))
  BY <1>1 DEF Config, Normalize, Answers, Configs, Workers, Charge, UseRedis
<1>4. Files(Config(n)) \subseteq Paths
  BY <1>1 DEF Config, Paths
<1> QED
  BY <1>2, <1>3, <1>4

\* Every text is of a run that has such a file, and a run that has written everything
\* finds its own texts in all its files but the secrets, which the user may copy over.
DirectoryInv ==
  /\ \A f \in Paths : disk[f] \in Runs => f \in Files(Config(disk[f]))
  /\ run > 0 /\ Complete =>
       \A f \in Files(Config(run)) \ {Secrets(Config(run))} : disk[f] = run

LEMMA DirectoryStep ==
  TypeOK /\ PhaseInv /\ DirectoryInv /\ [Next]_vars => DirectoryInv'
<1> SUFFICES ASSUME TypeOK, PhaseInv, DirectoryInv, [Next]_vars PROVE DirectoryInv'
  OBVIOUS
<1>0. answers' = answers /\ \A n \in Runs : Config(n)' = Config(n)
  BY AnswersStay
<1> USE Values DEF PhaseInv
<1>1. CASE Start
  <2>1. run' \in Runs /\ ~Complete' /\ disk' = disk
    BY <1>1 DEF Start, Complete, TypeOK
  <2> QED
    BY <1>0, <2>1 DEF DirectoryInv
<1>2. CASE Write
  <2>1. run \in Runs /\ run' = run /\ Files(Config(run)) \subseteq Paths
    BY <1>2, ConfigShape DEF Write
  <2>2. \A f \in Paths : disk'[f] = IF f \in Files(Config(run)) THEN run ELSE disk[f]
    BY <1>2 DEF Write
  <2>3. Config(run)' = Config(run)
    BY <1>0, <2>1 DEF Config
  <2> QED
    BY <1>0, <2>1, <2>2, <2>3 DEF DirectoryInv
<1>3. CASE WriteStops
  <2>1. run \in Runs /\ run' = run /\ Config(run)' = Config(run)
    BY <1>0, <1>3 DEF WriteStops, Config
  <2>2. ~Complete'
    BY <1>3, <2>1 DEF WriteStops, EndAs, Complete, TypeOK
  <2>3. PICK k \in 0 .. Len(FileOrder(Config(run))) - 1, next \in {"untouched", "torn"} :
          disk' = WrittenUpTo(k, next)
    BY <1>3 DEF WriteStops
  <2>4. ElementsOf(SubSeq(FileOrder(Config(run)), 1, k)) \subseteq Files(Config(run))
    <3>1. Config(run) \in Configs
      BY <2>1, ConfigShape
    <3>2. FileOrder(Config(run)) \in Seq(AllNames)
      BY <3>1, OrderIsFiles
    <3>3. k \in 0 .. Len(FileOrder(Config(run)))
      BY <2>3, <3>2
    <3> QED
      BY <3>1, <3>2, <3>3, OrderIsFiles, PrefixElements
  <2>5. ASSUME NEW f \in Paths, disk'[f] \in Runs
        PROVE  disk'[f] = disk[f] \/ (disk'[f] = run /\ f \in Files(Config(run)))
    BY <2>3, <2>4, <2>5 DEF WrittenUpTo
  <2> QED
    BY <1>0, <2>1, <2>2, <2>5 DEF DirectoryInv
<1>4. CASE CopyExample
  <2>1. run \in Runs /\ run' = run /\ Config(run)' = Config(run) /\ (Complete' <=> Complete)
    BY <1>0, <1>4 DEF CopyExample, Config, Complete, TypeOK
  <2>2. disk' = [disk EXCEPT ![Secrets(Config(run))] = ByHand]
    BY <1>4 DEF CopyExample
  <2>3. Files(Config(run)) \subseteq Paths
    BY <2>1, ConfigShape
  <2> QED
    BY <1>0, <2>1, <2>2, <2>3 DEF DirectoryInv, TypeOK
<1>5. CASE UNCHANGED <<run, disk>> /\ (run > 0 /\ Complete' => Complete)
  <2>1. run > 0 => Config(run)' = Config(run)
    BY <1>0, <1>5 DEF Config
  <2> QED
    BY <1>0, <1>5, <2>1 DEF DirectoryInv
<1>6. CASE \/ PrefundDeclined \/ PrefundSent \/ PrefundThrows \/ Install \/ GitCommits
           \/ GitFails \/ Report \/ CutOff
  <2>1. run > 0 /\ Complete' => Complete
    BY <1>6 DEF Complete, TypeOK, PrefundDeclined, PrefundSent, PrefundThrows, Install,
       GitCommits, GitFails, Report, CutOff, EndAs
  <2> QED
    BY <1>5, <1>6, <2>1
    DEF PrefundDeclined, PrefundSent, PrefundThrows, Install, GitCommits, GitFails, Report, CutOff
<1>7. CASE UNCHANGED vars
  BY <1>5, <1>7 DEF vars, Complete
<1> QED
  BY <1>1, <1>2, <1>3, <1>4, <1>6, <1>7 DEF Next

-----------------------------------------------------------------------------
(* What git holds.                                                         *)

\* .dev.vars is on disk after a Worker's run only, and in git's index once a run for
\* another framework has found it there; .env is ignored by all.
Worked == \E l \in 1 .. run : Workers(Config(l))
Moved  == \E l \in 1 .. run, m \in 1 .. run : Retargeted(l, m)
IndexInv ==
  \A f \in SecretPaths :
    /\ disk[f] # Nothing /\ f # ".env" => Worked
    /\ staged[f] # Nothing => f # ".env" /\ Moved

\* Only a Worker's run writes .dev.vars.
LEMMA WorkersFile ==
  ASSUME TypeOK, NEW n \in Runs, ".dev.vars" \in Files(Config(n))
  PROVE  Workers(Config(n))
<1>1. Config(n) \in Configs
  BY ConfigShape
<1> SUFFICES ASSUME ~Workers(Config(n)) PROVE FALSE
  OBVIOUS
<1>2. ElementsOf(MainFiles(Config(n))) \subseteq
        BaseNames \cup DbNames \cup QueueNames
          \cup {"src/services/thing-client.ts", Job(Config(n))}
  BY <1>1, FilesByName DEF When
<1>3. Job(Config(n)) # ".dev.vars"
  BY DEF Job
<1>4. ".dev.vars" \notin ElementsOf(MainFiles(Config(n)))
  BY <1>2, <1>3 DEF BaseNames, DbNames, QueueNames
<1> QED
  BY <1>4 DEF Files, Secrets

\* What has been stays so.
LEMMA RunsGoOn ==
  ASSUME TypeOK, [Next]_vars
  PROVE  /\ run \in 0 .. MaxRuns /\ run' \in {run, run + 1}
         /\ Worked => Worked'
         /\ Moved => Moved'
         /\ \A l, m \in Runs : Retargeted(l, m)' <=> Retargeted(l, m)
<1> USE Values
<1>1. run \in 0 .. MaxRuns /\ run' \in {run, run + 1}
  BY DEF TypeOK, Next, vars, Start, PrefundDeclined, PrefundSent, PrefundThrows, Write,
         WriteStops, Install, GitCommits, GitFails, Report, CutOff, CopyExample
<1>2. \A n \in Runs : Config(n)' = Config(n)
  BY AnswersStay
<1>3. 1 .. run \subseteq Runs /\ 1 .. run \subseteq 1 .. run'
  BY <1>1
<1>4. \A l, m \in Runs : Retargeted(l, m)' <=> Retargeted(l, m)
  BY <1>2 DEF Retargeted, Workers
<1>5. Worked => Worked'
  BY <1>2, <1>3 DEF Worked, Workers
<1>6. Moved => Moved'
  BY <1>3, <1>4 DEF Moved
<1> QED
  BY <1>1, <1>4, <1>5, <1>6

\* Whatever git adds is a Worker's file that a run for another framework has found.
LEMMA AddedIsMoved ==
  ASSUME TypeOK, IndexInv, run \in Runs, NEW f \in SecretPaths, Added[f] # Nothing
  PROVE  Added[f] = disk[f] /\ f # ".env" /\ Moved
<1> USE Values, SecretPathFacts
<1>1. CASE staged[f] # Nothing
  BY <1>1 DEF Added, IndexInv
<1>2. CASE staged[f] = Nothing
  <2>1. /\ f \notin GitIgnore(Config(run)) /\ Added[f] = disk[f]
    BY <1>2 DEF Added
  <2>2. f = ".dev.vars" /\ ~Workers(Config(run))
    BY <2>1 DEF GitIgnore, When
  <2>3. PICK l \in 1 .. run : Workers(Config(l))
    BY <2>1, <2>2 DEF IndexInv, Worked
  <2>4. l # run
    BY <2>2, <2>3
  <2>5. Retargeted(l, run) /\ run \in 1 .. run
    BY <2>2, <2>3, <2>4 DEF Retargeted
  <2> QED
    BY <2>1, <2>2, <2>3, <2>5 DEF Moved
<1> QED
  BY <1>1, <1>2

LEMMA DiskWorked ==
  ASSUME TypeOK, PhaseInv, IndexInv, [Next]_vars, NEW f \in SecretPaths,
         disk'[f] # Nothing, f # ".env"
  PROVE  Worked'
<1> USE Values, SecretPathFacts DEF TypeOK
<1>1. CASE disk'[f] = disk[f]
  BY <1>1, RunsGoOn DEF IndexInv
<1>2. ASSUME run \in Runs, run' = run, f \in Files(Config(run)) PROVE Worked'
  <2>1. Workers(Config(run))
    BY <1>2, WorkersFile
  <2>2. Worked
    BY <1>2, <2>1 DEF Worked
  <2> QED
    BY <2>2, RunsGoOn
<1>3. CASE Write
  BY <1>1, <1>2, <1>3 DEF Write, PhaseInv
<1>4. CASE WriteStops
  <2>1. run \in Runs /\ run' = run
    BY <1>4 DEF WriteStops, PhaseInv
  <2>2. PICK k \in 0 .. Len(FileOrder(Config(run))) - 1, next \in {"untouched", "torn"} :
          disk' = WrittenUpTo(k, next)
    BY <1>4 DEF WriteStops
  <2>3. /\ FileOrder(Config(run)) \in Seq(AllNames)
        /\ ElementsOf(FileOrder(Config(run))) = Files(Config(run))
    BY <2>1, ConfigShape, OrderIsFiles
  <2>4. ElementsOf(SubSeq(FileOrder(Config(run)), 1, k)) \subseteq Files(Config(run))
    BY <2>2, <2>3, PrefixElements
  <2>5. k < Len(FileOrder(Config(run))) => FileOrder(Config(run))[k + 1] \in Files(Config(run))
    BY <2>2, <2>3 DEF ElementsOf
  <2>6. disk'[f] = disk[f] \/ f \in Files(Config(run))
    BY <2>2, <2>4, <2>5 DEF WrittenUpTo
  <2> QED
    BY <1>1, <1>2, <2>1, <2>6
<1>5. CASE CopyExample
  <2>1. run \in Runs /\ run' = run
    BY <1>5 DEF CopyExample
  <2>2. disk'[f] = disk[f] \/ f = Secrets(Config(run))
    BY <1>5 DEF CopyExample
  <2>3. ASSUME f = Secrets(Config(run)) PROVE Worked
    BY <2>1, <2>3 DEF Secrets, Worked
  <2> QED
    BY <1>1, <2>2, <2>3, RunsGoOn
<1>6. CASE UNCHANGED disk
  BY <1>1, <1>6
<1> QED
  BY <1>3, <1>4, <1>5, <1>6
  DEF Next, vars, Start, PrefundDeclined, PrefundSent, PrefundThrows, Install, GitCommits,
      GitFails, Report, CutOff

LEMMA IndexStep == TypeOK /\ PhaseInv /\ IndexInv /\ [Next]_vars => IndexInv'
<1> SUFFICES ASSUME TypeOK, PhaseInv, IndexInv, [Next]_vars, NEW f \in SecretPaths
             PROVE  /\ disk'[f] # Nothing /\ f # ".env" => Worked'
                    /\ staged'[f] # Nothing => f # ".env" /\ Moved'
  BY DEF IndexInv
<1>1. disk'[f] # Nothing /\ f # ".env" => Worked'
  BY DiskWorked
<1>2. CASE staged' = staged
  BY <1>1, <1>2, RunsGoOn DEF IndexInv
<1>3. CASE staged' = Added /\ run \in Runs
  BY <1>1, <1>3, AddedIsMoved, RunsGoOn
<1>4. CASE GitCommits \/ GitFails \/ CutOff
  BY <1>2, <1>3, <1>4 DEF GitCommits, GitFails, CutOff, When, PhaseInv
<1> QED
  BY <1>2, <1>4
  DEF Next, vars, Start, PrefundDeclined, PrefundSent, PrefundThrows, Write, WriteStops,
      Install, Report, CopyExample

LEMMA PrivateStep ==
  TypeOK /\ PhaseInv /\ DiskInv /\ IndexInv /\ KeysStayPrivate /\ [Next]_vars
    => KeysStayPrivate'
<1> SUFFICES ASSUME TypeOK, PhaseInv, DiskInv, IndexInv, KeysStayPrivate, [Next]_vars,
                    NEW n \in committed'
             PROVE  (Workers(Config(n)) /\ \E l \in 1 .. n, m \in 1 .. run : Retargeted(l, m))'
  BY DEF KeysStayPrivate
<1> USE Values
<1>1. run \in 0 .. MaxRuns /\ run' \in {run, run + 1}
  BY RunsGoOn
<1>2. ASSUME n \in Runs, Workers(Config(n)),
             NEW l \in 1 .. n, NEW m \in 1 .. run, Retargeted(l, m)
      PROVE  (Workers(Config(n)) /\ \E j \in 1 .. n, k \in 1 .. run : Retargeted(j, k))'
  <2>1. Workers(Config(n))'
    BY <1>2, AnswersStay DEF Workers
  <2>2. l \in Runs /\ m \in Runs /\ m \in 1 .. run'
    BY <1>1, <1>2
  <2>3. Retargeted(l, m)'
    BY <1>2, <2>2, RunsGoOn
  <2> QED
    BY <2>1, <2>2, <2>3
<1>3. CASE n \in committed
  <2>1. PICK l \in 1 .. n, m \in 1 .. run : Workers(Config(n)) /\ Retargeted(l, m)
    BY <1>3 DEF KeysStayPrivate
  <2>2. n \in Runs
    BY <1>3 DEF TypeOK
  <2> QED
    BY <1>2, <2>1, <2>2
<1>4. CASE n \notin committed
  <2>1. GitCommits
    BY <1>4 DEF Next, vars, Start, PrefundDeclined, PrefundSent, PrefundThrows, Write,
       WriteStops, Install, GitFails, Report, CutOff, CopyExample
  <2> DEFINE f == Secrets(Config(n))
  <2>2. n \in Runs /\ HasWallet(n) /\ Added[f] = n /\ run \in Runs
    BY <1>4, <2>1 DEF GitCommits, PhaseInv
  <2>3. f \in SecretPaths /\ f \in Paths
    BY <2>2, SecretPathFacts
  <2>4. disk[f] = n /\ f # ".env" /\ Moved
    BY <2>2, <2>3, AddedIsMoved
  <2>5. Workers(Config(n)) /\ n <= run
    BY <2>2, <2>3, <2>4 DEF Secrets, DiskInv
  <2>6. PICK l \in 1 .. run, m \in 1 .. run : Retargeted(l, m)
    BY <2>4 DEF Moved
  <2>7. CASE l <= n
    BY <1>2, <2>2, <2>5, <2>6, <2>7
  <2>8. CASE n < l
    <3>1. Retargeted(n, m)
      BY <2>2, <2>5, <2>6, <2>8 DEF Retargeted
    <3>2. n \in 1 .. n
      BY <2>2
    <3> QED
      BY <1>2, <2>2, <2>5, <3>1, <3>2
  <2> QED
    BY <2>2, <2>7, <2>8
<1> QED
  BY <1>3, <1>4

\* In any number of runs, failed, cut off or complete, only a change from Workers to
\* another framework brings a key into a commit, then or by any later run.
THEOREM KeysAlwaysPrivate == Spec => []KeysStayPrivate
<1>1. Init => IndexInv /\ KeysStayPrivate
  BY SecretPathFacts DEF Init, IndexInv, KeysStayPrivate
<1>2. CreateInv /\ IndexInv /\ KeysStayPrivate /\ [Next]_vars => IndexInv' /\ KeysStayPrivate'
  BY IndexStep, PrivateStep DEF CreateInv
<1> QED
  BY <1>1, <1>2, CreateInitInv, CreateInvInductive, PTL DEF Spec

-----------------------------------------------------------------------------
(* What is generated compiles.                                             *)

\* The text of each file, by its name.
LEMMA TextsByName ==
  ASSUME NEW c
  PROVE  /\ Text("src/index.ts", c) = IndexEntry(c)
         /\ Text("src/app/app-context.ts", c) = AppContextFile(c)
         /\ Text("src/app/build-app.ts", c) = BuildApp
         /\ Text("src/core/env.ts", c) = EnvFile
         /\ Text("src/routes/things.ts", c) = IF Charge(c) THEN ChargeRoutes ELSE SessionRoutes
         /\ Text("src/routes/health.ts", c) = RoutesHealth(c)
         /\ Text("src/routes/wellknown.ts", c) = RoutesWellKnown
         /\ Text("src/setup/index.ts", c) = Setup
         /\ Text("src/services/thing-client.ts", c) = ThingClient
         /\ Text("src/db/client.ts", c) = DbClient
         /\ Text("src/db/migrate.ts", c) = DbMigrate
         /\ Text("src/models/thing.ts", c) = ThingModel
         /\ Text("src/worker/queue.ts", c) = WorkerQueue
         /\ Text("src/worker/index.ts", c) = WorkerIndex(c)
         /\ Text("src/worker/start.ts", c) = WorkerStart(c)
         /\ Text("src/worker/jobs/reaper-job.ts", c) = ReaperJob
         /\ Text("src/worker.ts", c) = WorkerEntry
  BY DEF Text

\* Files that are not TypeScript of the service need nothing.
PlainNames ==
  {"package.json", "tsconfig.json", "biome.json", "vitest.config.ts", ".env.example",
   ".gitignore", "Dockerfile", "README.md", "drizzle.config.ts", "wrangler.toml",
   ".dev.vars.example", ".dev.vars", ".env", "src/worker/jobs/session-settle-job.ts"}

LEMMA PlainTexts ==
  ASSUME NEW c, NEW f \in PlainNames
  PROVE  Text(f, c) = Needs({}, {}, {}, {})
  BY DEF Text, PlainNames

\* A file that is there without the others of its configuration: what a text for d
\* needs of a directory in which configuration c was written.
Fits(f, d, c) ==
  LET text == Text(f, d)
  IN  /\ text.imports \subseteq Generated
      /\ text.packages \subseteq Dependencies(c)
      /\ text.env \subseteq EnvSchema(c)
      /\ text.ctx \subseteq AppContext(c)

LEMMA PlainFits ==
  ASSUME NEW f \in PlainNames, NEW c, NEW d
  PROVE  Fits(f, d, c)
  BY PlainTexts DEF Fits, Needs

\* The directory once everything is written for run's configuration c.
LEMMA DirectoryHolds ==
  ASSUME TypeOK, DirectoryInv, run > 0, Complete,
         \A f \in Generated : Covers(Config(run), ConfigOf(f))
  PROVE  /\ run \in Runs
         /\ \A f \in ElementsOf(MainFiles(Config(run))) : f \in Generated /\ disk[f] = run
         /\ \A f \in Generated : /\ ConfigOf(f) \in Configs
                                 /\ f \in Files(ConfigOf(f))
                                 /\ Covers(Config(run), ConfigOf(f))
<1> USE Values DEF TypeOK
<1>1. run \in Runs
  OBVIOUS
<1>2. Secrets(Config(run)) \notin ElementsOf(MainFiles(Config(run)))
  <2>1. Config(run) \in Configs
    BY <1>1, ConfigShape
  <2>2. CASE Workers(Config(run))
    <3>1. ElementsOf(MainFiles(Config(run))) = WorkersNames
      BY <2>1, <2>2, FilesByName
    <3> QED
      BY <2>2, <3>1 DEF Secrets, WorkersNames
  <2>3. CASE ~Workers(Config(run))
    <3>1. ElementsOf(MainFiles(Config(run))) \subseteq
            BaseNames \cup DbNames \cup QueueNames
              \cup {"src/services/thing-client.ts", Job(Config(run))}
      BY <2>1, <2>3, FilesByName DEF When
    <3>2. Job(Config(run)) # ".env"
      BY DEF Job
    <3> QED
      BY <2>3, <3>1, <3>2 DEF Secrets, BaseNames, DbNames, QueueNames
  <2> QED
    BY <2>2, <2>3
<1>3. ElementsOf(MainFiles(Config(run))) \subseteq Files(Config(run)) \ {Secrets(Config(run))}
  BY <1>2 DEF Files
<1>4. Files(Config(run)) \subseteq Paths
  BY <1>1, ConfigShape
<1>5. \A f \in Generated : disk[f] \in Runs
  BY DEF Generated
<1> QED
  BY <1>1, <1>3, <1>4, <1>5, ConfigShape DEF DirectoryInv, Generated, ConfigOf

\* A Worker's directory, whatever Workers were scaffolded in it before.
LEMMA WorkersFit ==
  ASSUME TypeOK, DirectoryInv, run > 0, Complete,
         \A f \in Generated : Covers(Config(run), ConfigOf(f)),
         Workers(Config(run))
  PROVE  Typechecks /\ Documented
<1> DEFINE c == Config(run)
<1>1. ASSUME NEW f \in Generated
      PROVE  f \in PlainNames \/ f = "src/worker.ts"
  <2>1. /\ ConfigOf(f) \in Configs /\ Workers(ConfigOf(f)) /\ f \in Files(ConfigOf(f))
    BY DirectoryHolds DEF Covers
  <2>2. f \in WorkersNames \/ f = ".dev.vars"
    BY <2>1, FilesByName DEF Files, Secrets
  <2> QED
    BY <2>2 DEF WorkersNames, PlainNames
<1>2. "package.json" \in Generated /\ ConfigOf("package.json") = c
  <2>1. "package.json" \in ElementsOf(MainFiles(c))
    BY DirectoryHolds, ConfigShape, FilesByName DEF WorkersNames
  <2> QED
    BY <2>1, DirectoryHolds DEF ConfigOf
<1>3. "src/index.ts" \notin Generated /\ "src/core/env.ts" \notin Generated
  BY <1>1 DEF PlainNames
<1>4. ASSUME NEW f \in Generated
      PROVE  LET text == Text(f, ConfigOf(f))
             IN  /\ text.imports = {} /\ text.env = {} /\ text.ctx = {}
                 /\ text.packages \subseteq {"hono"}
  <2>1. CASE f \in PlainNames
    BY <2>1, PlainTexts DEF Needs
  <2>2. CASE f = "src/worker.ts"
    BY <2>2, TextsByName DEF WorkerEntry, Needs
  <2> QED
    BY <1>1, <2>1, <2>2
<1>5. Dependencies(c) = {"hono"}
  BY DEF Dependencies, HonoDependencies
<1> QED
  BY <1>2, <1>3, <1>4, <1>5 DEF Typechecks, Documented

\* Whatever is found in the directory of a Node service was written for its own
\* configuration, or is on its own: a client, a job or a secrets file of another run.
LEMMA NodeHolds ==
  ASSUME TypeOK, DirectoryInv, run > 0, Complete,
         \A f \in Generated : Covers(Config(run), ConfigOf(f)),
         ~Workers(Config(run)),
         NEW f \in Generated
  PROVE  \/ f \in ElementsOf(MainFiles(Config(run))) /\ ConfigOf(f) = Config(run)
         \/ f \in {"src/services/thing-client.ts", "src/worker/jobs/reaper-job.ts"}
         \/ f \in PlainNames
<1> DEFINE c == Config(run)
           d == ConfigOf(f)
<1>1. /\ c \in Configs /\ d \in Configs /\ ~Workers(d)
      /\ (UsePg(d) => UsePg(c)) /\ (UseRedis(d) => UseRedis(c))
      /\ f \in Files(d)
  BY DirectoryHolds, ConfigShape DEF Covers
<1>2. f \in ElementsOf(MainFiles(c)) => ConfigOf(f) = c
  BY DirectoryHolds DEF ConfigOf
<1>3. CASE f \in ElementsOf(MainFiles(d))
  <2>1. f \in BaseNames \/ f = "src/services/thing-client.ts"
        \/ (UsePg(d) /\ f \in DbNames) \/ (UseRedis(d) /\ f \in QueueNames \cup {Job(d)})
    BY <1>1, <1>3, FilesByName DEF When
  <2>2. f \in BaseNames \/ (UsePg(c) /\ f \in DbNames) \/ (UseRedis(c) /\ f \in QueueNames)
          => f \in ElementsOf(MainFiles(c))
    BY <1>1, FilesByName DEF When
  <2>3. f = Job(d) => f = "src/worker/jobs/reaper-job.ts" \/ f \in PlainNames
    BY DEF Job, PlainNames
  <2> QED
    BY <1>1, <1>2, <2>1, <2>2, <2>3
<1>4. CASE f = Secrets(d)
  BY <1>1, <1>4 DEF Secrets, PlainNames
<1> QED
  BY <1>1, <1>3, <1>4 DEF Files

\* Each text fits, but for the framework's packages and the probe of a database that
\* a charge service has no client for.
LEMMA NodeFits ==
  ASSUME TypeOK, DirectoryInv, run > 0, Complete,
         \A f \in Generated : Covers(Config(run), ConfigOf(f)),
         Config(run).framework = "fastify",
         Charge(Config(run)) => Config(run).storage = "none",
         NEW f \in Generated
  PROVE  Fits(f, ConfigOf(f), Config(run))
<1> DEFINE c == Config(run)
<1>1. c \in Configs /\ ~Workers(c)
  BY DirectoryHolds, ConfigShape DEF Workers
<1>2. /\ BaseNames \subseteq Generated
      /\ Charge(c) => "src/services/thing-client.ts" \in Generated
      /\ UsePg(c) => DbNames \subseteq Generated
      /\ UseRedis(c) => QueueNames \cup {Job(c)} \subseteq Generated
  BY <1>1, DirectoryHolds, FilesByName DEF When
<1>3. /\ "fastify" \in Dependencies(c) /\ "node" \in Dependencies(c)
      /\ UsePg(c) => "drizzle" \in Dependencies(c)
      /\ UseRedis(c) => "bullmq" \in Dependencies(c)
  BY <1>1 DEF Dependencies, When
<1>4. CASE f \in {"src/services/thing-client.ts", "src/worker/jobs/reaper-job.ts"}
  BY <1>2, <1>4, TextsByName DEF Fits, ThingClient, ReaperJob, Needs, BaseNames
<1>5. CASE f \in PlainNames
  BY <1>5, PlainFits
<1>6. CASE f \in BaseNames \ PlainNames /\ ConfigOf(f) = c
  <2>1. CASE f = "src/index.ts"
    BY <1>2, <1>3, <1>6, <2>1, TextsByName
    DEF Fits, IndexEntry, Needs, When, BaseNames, DbNames, QueueNames, EnvSchema
  <2>2. CASE f = "src/app/app-context.ts"
    BY <1>2, <1>3, <1>6, <2>2, TextsByName
    DEF Fits, AppContextFile, Needs, When, BaseNames, DbNames, QueueNames
  <2>3. CASE f \in {"src/app/build-app.ts", "src/core/env.ts", "src/setup/index.ts"}
    BY <1>2, <1>3, <2>3, TextsByName DEF Fits, BuildApp, EnvFile, Setup, Needs, BaseNames
  <2>4. CASE f = "src/routes/things.ts"
    BY <1>2, <1>3, <1>6, <2>4, TextsByName
    DEF Fits, ChargeRoutes, SessionRoutes, Needs, When, EnvSchema, AppContext, Always
  <2>5. CASE f = "src/routes/health.ts"
    <3>1. c.storage = "postgres" => UsePg(c)
      BY <1>1 DEF UsePg, Charge, Configs
    <3> QED
      BY <1>3, <1>6, <2>5, <3>1, TextsByName DEF Fits, RoutesHealth, Needs, When, AppContext
  <2>6. CASE f = "src/routes/wellknown.ts"
    BY <1>2, <1>3, <1>6, <2>6, TextsByName
    DEF Fits, RoutesWellKnown, Needs, BaseNames, EnvSchema, AppContext, Always
  <2> QED
    BY <1>6, <2>1, <2>2, <2>3, <2>4, <2>5, <2>6 DEF BaseNames, PlainNames
<1>7. CASE UsePg(c) /\ f \in DbNames \ PlainNames
  BY <1>2, <1>3, <1>7, TextsByName
  DEF Fits, DbClient, DbMigrate, ThingModel, Needs, DbNames, BaseNames, PlainNames, EnvSchema, When
<1>8. CASE UseRedis(c) /\ f \in QueueNames /\ ConfigOf(f) = c
  BY <1>2, <1>3, <1>8, TextsByName
  DEF Fits, WorkerQueue, WorkerIndex, WorkerStart, Needs, QueueNames, BaseNames, EnvSchema, When,
      Job
<1>9. f \in ElementsOf(MainFiles(c)) =>
        \/ f \in BaseNames
        \/ UsePg(c) /\ f \in DbNames
        \/ UseRedis(c) /\ f \in QueueNames
        \/ f \in {"src/services/thing-client.ts", "src/worker/jobs/reaper-job.ts"}
        \/ f \in PlainNames
  BY <1>1, FilesByName DEF When, Job, PlainNames
<1> QED
  BY <1>1, <1>4, <1>5, <1>6, <1>7, <1>8, <1>9, NodeHolds

\* The directory of a Node service compiles if it should, and only then.
LEMMA NodeRepaired ==
  ASSUME TypeOK, DirectoryInv, run > 0, Complete,
         \A f \in Generated : Covers(Config(run), ConfigOf(f)),
         ~Workers(Config(run))
  PROVE  /\ Typechecks <=> /\ Config(run).framework # "none"
                           /\ Charge(Config(run)) => Config(run).storage = "none"
         /\ Documented
<1> DEFINE c == Config(run)
<1>1. c \in Configs
  BY DirectoryHolds, ConfigShape
<1>2. \A f \in BaseNames : f \in Generated /\ ConfigOf(f) = c
  BY <1>1, DirectoryHolds, FilesByName DEF ConfigOf
<1>3. Documented
  <2>1. ConfigOf("src/core/env.ts") = c /\ ConfigOf(".env.example") = c
    BY <1>2 DEF BaseNames
  <2> QED
    BY <2>1 DEF Documented, EnvSchema, EnvExample
<1>4. ASSUME c.framework # "none", Charge(c) => c.storage = "none" PROVE Typechecks
  <2>1. c.framework = "fastify"
    BY <1>1, <1>4 DEF Configs, Workers
  <2>2. \A f \in Generated : Fits(f, ConfigOf(f), c)
    BY <1>4, <2>1, NodeFits
  <2>3. /\ ConfigOf("package.json") = c
        /\ "src/core/env.ts" \in Generated /\ ConfigOf("src/core/env.ts") = c
        /\ ConfigOf("src/index.ts") = c /\ ConfigOf("src/app/app-context.ts") = c
    BY <1>2 DEF BaseNames
  <2>4. ContextBuilt(c) = AppContext(c)
    BY DEF ContextBuilt, AppContext
  <2> QED
    BY <2>2, <2>3, <2>4 DEF Typechecks, Fits
<1>5. ASSUME c.framework = "none" PROVE ~Typechecks
  <2>1. /\ "src/app/build-app.ts" \in Generated /\ ConfigOf("package.json") = c
    BY <1>2 DEF BaseNames
  <2>2. "fastify" \in Text("src/app/build-app.ts", ConfigOf("src/app/build-app.ts")).packages
    BY TextsByName DEF BuildApp, Needs
  <2>3. "fastify" \notin Dependencies(c)
    BY <1>5 DEF Dependencies, Workers, When
  <2> QED
    BY <2>1, <2>2, <2>3 DEF Typechecks
<1>6. ASSUME Charge(c), c.storage # "none" PROVE ~Typechecks
  <2>1. /\ "src/routes/health.ts" \in Generated /\ ConfigOf("src/routes/health.ts") = c
        /\ ConfigOf("src/app/app-context.ts") = c
    BY <1>2 DEF BaseNames
  <2>2. c.storage = "postgres"
    BY <1>1, <1>6 DEF Configs
  <2>3. "db" \in Text("src/routes/health.ts", c).ctx
    BY <2>2, TextsByName DEF RoutesHealth, Needs, When
  <2>4. "db" \notin AppContext(c)
    BY <1>6 DEF AppContext, When, UsePg, Charge
  <2> QED
    BY <2>1, <2>3, <2>4 DEF Typechecks
<1> QED
  BY <1>3, <1>4, <1>5, <1>6

\* For any sequence of runs with any answers, failed, cut off or complete: once a run
\* has written everything over what it covers, the directory compiles and its
\* environment is documented, unless it has no framework, or Postgres in a charge service.
THEOREM RerunAlwaysRepairs == Spec => []RerunRepairs
<1>1. Init => DirectoryInv
  BY Values DEF Init, DirectoryInv
<1>2. CreateInv /\ DirectoryInv /\ [Next]_vars => DirectoryInv'
  BY DirectoryStep DEF CreateInv
<1>3. CreateInv /\ DirectoryInv => RerunRepairs
  <2> SUFFICES ASSUME TypeOK, DirectoryInv, run > 0, Complete,
                      \A f \in Generated : Covers(Config(run), ConfigOf(f))
               PROVE  /\ Typechecks <=> /\ Config(run).framework # "none"
                                        /\ Charge(Config(run)) => Config(run).storage = "none"
                      /\ Documented
    BY DEF CreateInv, RerunRepairs
  <2>1. CASE Workers(Config(run))
    <3>1. run \in Runs
      BY DirectoryHolds
    <3>2. Config(run).framework # "none" /\ Config(run).storage = "none"
      BY <2>1, <3>1, ConfigShape DEF Workers
    <3> QED
      BY <2>1, <3>2, WorkersFit
  <2>2. CASE ~Workers(Config(run))
    BY <2>2, NodeRepaired
  <2> QED
    BY <2>1, <2>2
<1> QED
  BY <1>1, <1>2, <1>3, CreateInitInv, CreateInvInductive, PTL DEF Spec
================================================================================
