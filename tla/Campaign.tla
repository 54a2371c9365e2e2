------------------------------ MODULE Campaign ------------------------------
(***************************************************************************)
(* run_campaign and its Store (bench/campaign.py): a directory with one    *)
(* manifest and one document per client, a process that measures the keys  *)
(* of a plan and saves every record, and the crashes after which another   *)
(* invocation resumes from the files alone.                                *)
(*                                                                         *)
(* A document is its runs grouped by key, in the order of their attempts,  *)
(* and the points its client cannot run.  A save replaces the whole file   *)
(* (written beside it, then renamed), so it is one step.                   *)
(***************************************************************************)
EXTENDS Naturals, Sequences, FiniteSets

CONSTANTS
  Points, Clients, Runs,  \* the catalogue, the clients and the run indices
  Settings,     \* what an invocation runs with: profile, points, clients, environment
  Order,        \* plan(): for each setting, the keys in execution order
  Refused,      \* refusals(): for each setting, the (point, client) pairs it cannot run
  MaxAttempts,  \* MAX_ATTEMPTS
  MaxCrashes    \* bound: times the process may die

Keys == Points \X Clients \X Runs
ClientOf(k) == k[2]

ASSUME CampaignAssumption ==
  /\ Order \in [Settings -> Seq(Keys)]
  /\ \A s \in Settings : \A m, n \in 1 .. Len(Order[s]) : Order[s][m] = Order[s][n] => m = n
  /\ Refused \in [Settings -> SUBSET (Points \X Clients)]
  /\ MaxAttempts \in Nat \ {0}
  /\ MaxCrashes \in Nat

Statuses == {"valid", "not_sustained", "invalid"}
\* `under` is a history field: the setting the record was measured with.
Record == [status : Statuses, attempt : Nat, session : Nat, under : Settings]
NoManifest == [frozen |-> {}, sessions |-> 0, finished |-> FALSE]

VARIABLES
  manifest,     \* manifest.json; `frozen` holds its setting, {} when there is no file
  runs,         \* the runs on disk, by key
  unsupported,  \* the unsupported pairs on disk
  pc,           \* where run_campaign is, "off" between invocations
  given,        \* the setting of this invocation
  mem,          \* store.docs' runs
  memUnsupported,
  book,         \* run_campaign's manifest
  attempt,      \* the pass of this session
  todo,         \* positions of the plan left in this pass
  crashes

disk == <<manifest, runs, unsupported>>
memory == <<given, mem, memUnsupported, book, attempt, todo>>
vars == <<disk, pc, memory, crashes>>

Manifest == [frozen : SUBSET Settings, sessions : Nat, finished : BOOLEAN]

TypeOK ==
  /\ manifest \in Manifest /\ book \in Manifest
  /\ runs \in [Keys -> Seq(Record)] /\ mem \in [Keys -> Seq(Record)]
  /\ unsupported \subseteq Points \X Clients /\ memUnsupported \subseteq Points \X Clients
  /\ pc \in {"off", "loaded", "declaring", "opening", "running"}
  /\ given \in Settings
  /\ attempt \in 0 .. MaxAttempts - 1
  /\ todo \subseteq 1 .. Len(Order[given])
  /\ crashes \in 0 .. MaxCrashes

NoRuns == [k \in Keys |-> << >>]

\* An empty directory, or one whose documents have lost their manifest.
Foreign(s, k) ==
  [NoRuns EXCEPT ![k] = <<[status |-> "valid", attempt |-> 0, session |-> 0, under |-> s]>>]

Init ==
  /\ manifest = NoManifest
  /\ \/ runs = NoRuns
     \/ \E s \in Settings, k \in Keys : runs = Foreign(s, k)
  /\ unsupported = {}
  /\ pc = "off"
  /\ given \in Settings
  /\ mem = NoRuns /\ memUnsupported = {} /\ book = NoManifest
  /\ attempt = 0 /\ todo = {}
  /\ crashes = 0

-----------------------------------------------------------------------------
Planned(s) == {Order[s][n] : n \in 1 .. Len(Order[s])}

\* Mutant: only the number of attempts is looked at.
DoneByCount(attempts) == Len(attempts) >= MaxAttempts

\* Store.done, of the attempts recorded for a key.
Done(attempts) ==
  \/ Len(attempts) >= MaxAttempts
  \/ \E n \in 1 .. Len(attempts) : attempts[n].status # "invalid"

\* The keys of one pass: not done, and tried `a` times.
Pass(a) ==
  {n \in 1 .. Len(Order[given]) :
     LET k == Order[given][n] IN ~Done(mem[k]) /\ Len(mem[k]) = a}

\* Store._save: the document of one client replaces its file.
SaveDoc(c, newRuns, newUnsupported) ==
  /\ runs' = [k \in Keys |-> IF ClientOf(k) = c THEN newRuns[k] ELSE runs[k]]
  /\ unsupported' = {u \in unsupported : u[2] # c} \cup {u \in newUnsupported : u[2] = c}

HasDocs == unsupported # {} \/ \E k \in Keys : runs[k] # << >>

\* Documents need a manifest, and a manifest the same settings and environment.
MayProceed ==
  IF manifest.frozen = {} THEN ~HasDocs ELSE manifest.frozen = {given}

\* Mutant: the documents are not read back.
LoadManifestOnly(s) ==
  /\ pc = "off"
  /\ pc' = "loaded"
  /\ given' = s
  /\ mem' = NoRuns /\ memUnsupported' = unsupported /\ book' = manifest
  /\ attempt' = 0 /\ todo' = {}
  /\ UNCHANGED <<disk, crashes>>

\* An invocation, new or resumed, loads the directory.
Load(s) ==
  /\ pc = "off"
  /\ pc' = "loaded"
  /\ given' = s
  /\ mem' = runs /\ memUnsupported' = unsupported /\ book' = manifest
  /\ attempt' = 0 /\ todo' = {}
  /\ UNCHANGED <<disk, crashes>>

Refuse ==
  /\ pc = "loaded" /\ ~MayProceed
  /\ pc' = "off"
  /\ UNCHANGED <<disk, memory, crashes>>

\* The manifest is frozen before anything else is written.
Freeze ==
  /\ pc = "loaded" /\ MayProceed
  /\ pc' = "declaring"
  /\ book' = IF manifest.frozen = {} THEN [NoManifest EXCEPT !.frozen = {given}] ELSE book
  /\ manifest' = book'
  /\ UNCHANGED <<runs, unsupported, given, mem, memUnsupported, attempt, todo, crashes>>

\* add_unsupported: a pair not recorded yet.
Declare(u) ==
  /\ pc = "declaring" /\ u \in Refused[given] \ memUnsupported
  /\ memUnsupported' = memUnsupported \cup {u}
  /\ SaveDoc(u[2], mem, memUnsupported')
  /\ UNCHANGED <<manifest, pc, given, mem, book, attempt, todo, crashes>>

AllDone == \A k \in Planned(given) : Done(mem[k])

WriteFinished ==
  /\ book' = [book EXCEPT !.finished = TRUE]
  /\ manifest' = book'

\* Mutant: a campaign found complete is left without its finished_at.
DecideOnly ==
  /\ pc = "declaring" /\ Refused[given] \subseteq memUnsupported
  /\ pc' = IF AllDone THEN "off" ELSE "opening"
  /\ UNCHANGED <<disk, memory, crashes>>

\* Every pair is recorded: nothing left to measure, or a session is needed.
Decide ==
  /\ pc = "declaring" /\ Refused[given] \subseteq memUnsupported
  /\ \/ AllDone /\ pc' = "off" /\ WriteFinished
     \/ ~AllDone /\ pc' = "opening" /\ UNCHANGED <<manifest, book>>
  /\ UNCHANGED <<runs, unsupported, given, mem, memUnsupported, attempt, todo, crashes>>

\* Mutant: the session reaches the disk with the end of the campaign only.
OpenSessionInMemory ==
  /\ pc = "opening"
  /\ pc' = "running"
  /\ book' = [book EXCEPT !.sessions = @ + 1]
  /\ attempt' = 0 /\ todo' = Pass(0)
  /\ UNCHANGED <<disk, given, mem, memUnsupported, crashes>>

\* open_session, its entry in the manifest, and the first pass.
OpenSession ==
  /\ pc = "opening"
  /\ pc' = "running"
  /\ book' = [book EXCEPT !.sessions = @ + 1]
  /\ manifest' = book'
  /\ attempt' = 0 /\ todo' = Pass(0)
  /\ UNCHANGED <<runs, unsupported, given, mem, memUnsupported, crashes>>

\* run_once for the next key of the pass, and Store.add of its record.
Measure(status) ==
  /\ pc = "running" /\ todo # {}
  /\ \E n \in todo :
       /\ \A m \in todo : n <= m
       /\ todo' = todo \ {n}
       /\ LET k == Order[given][n]
              record == [status |-> status, attempt |-> attempt,
                         session |-> book.sessions - 1, under |-> given]
          IN /\ mem' = [mem EXCEPT ![k] = Append(@, record)]
             /\ SaveDoc(ClientOf(k), mem', memUnsupported)
  /\ UNCHANGED <<manifest, pc, given, memUnsupported, book, attempt, crashes>>

\* Mutant: one pass too many.
NextPassOneMore ==
  /\ pc = "running" /\ todo = {} /\ attempt < MaxAttempts
  /\ attempt' = attempt + 1
  /\ todo' = Pass(attempt + 1)
  /\ UNCHANGED <<disk, pc, given, mem, memUnsupported, book, crashes>>

NextPass ==
  /\ pc = "running" /\ todo = {} /\ attempt + 1 < MaxAttempts
  /\ attempt' = attempt + 1
  /\ todo' = Pass(attempt + 1)
  /\ UNCHANGED <<disk, pc, given, mem, memUnsupported, book, crashes>>

Finish ==
  /\ pc = "running" /\ todo = {} /\ attempt + 1 = MaxAttempts
  /\ pc' = "off"
  /\ WriteFinished
  /\ UNCHANGED <<runs, unsupported, given, mem, memUnsupported, attempt, todo, crashes>>

\* The process is killed, or an exception leaves run_campaign.
Crash ==
  /\ pc # "off" /\ crashes < MaxCrashes
  /\ pc' = "off"
  /\ crashes' = crashes + 1
  /\ UNCHANGED <<disk, memory>>

-----------------------------------------------------------------------------
Next ==
  \/ \E s \in Settings : Load(s)
  \/ Refuse \/ Freeze
  \/ \E u \in Points \X Clients : Declare(u)
  \/ Decide \/ OpenSession
  \/ \E status \in Statuses : Measure(status)
  \/ NextPass \/ Finish
  \/ Crash

\* The process takes its steps: a run ends whatever its children do.  An operator
\* keeps resuming with the settings the campaign was started with.
Resume == \E s \in Settings : Load(s) /\ manifest.frozen \in {{}, {s}}

Fairness ==
  /\ WF_vars(Refuse) /\ WF_vars(Freeze)
  /\ WF_vars(\E u \in Points \X Clients : Declare(u))
  /\ WF_vars(Decide) /\ WF_vars(OpenSession)
  /\ WF_vars(\E status \in Statuses : Measure(status))
  /\ WF_vars(NextPass) /\ WF_vars(Finish)
  /\ SF_vars(Resume)

Spec == Init /\ [][Next]_vars
FairSpec == Spec /\ Fairness

-----------------------------------------------------------------------------
(* Properties, of what is on disk: all that survives a crash. *)

Started == manifest.frozen # {}

\* A valid run is never repeated and an invalid one is retried up to the limit: the
\* attempts of a key are numbered in order, and only the last may be valid.
AttemptsInOrder ==
  \A k \in Keys : /\ Len(runs[k]) <= MaxAttempts
                  /\ \A n \in 1 .. Len(runs[k]) :
                       /\ runs[k][n].attempt = n - 1
                       /\ n < Len(runs[k]) => runs[k][n].status = "invalid"

\* Every record names a session that the manifest describes (its host and ceiling),
\* and was measured with the settings the manifest froze.
RecordsNameTheirSession ==
  Started =>
    \A k \in Keys : \A n \in 1 .. Len(runs[k]) :
      /\ runs[k][n].session < manifest.sessions
      /\ manifest.frozen = {runs[k][n].under}

\* "finished_at" means that every key of the plan is done, and that every pair the
\* clients cannot run is declared.
FinishedMeansDone ==
  manifest.finished =>
    \A s \in manifest.frozen : /\ \A k \in Planned(s) : Done(runs[k])
                              /\ Refused[s] \subseteq unsupported

\* Retries come last: over all sessions, no key is tried a second time while another
\* has not been tried at all.
RetriesComeLast ==
  Started =>
    \A s \in manifest.frozen :
      (\E k \in Keys : Len(runs[k]) > 1) => \A k \in Planned(s) : runs[k] # << >>

\* Over all sessions and crashes, each key's attempts follow the retry rule, and the keys
\* follow one another in the plan's order of passes.
AttemptsFollowTheRules == AttemptsInOrder /\ RetriesComeLast

\* What the manifest says of the records, in whatever order the files were written, is true.
ManifestIsTrue == RecordsNameTheirSession /\ FinishedMeansDone

\* Crashes and resumptions included, the directory is a ledger that loses nothing.
verdicts == [k \in Keys |-> IF Started THEN [n \in 1 .. Len(runs[k]) |-> runs[k][n].status]
                            ELSE << >>]

AbstractLedger == INSTANCE Ledger WITH
  plan <- UNION {Planned(s) : s \in manifest.frozen},
  verdicts <- verdicts, closed <- manifest.finished

ImplementsLedger == AbstractLedger!Spec

\* A campaign that is resumed after its crashes finishes; one whose documents have
\* lost their manifest never starts.
CampaignFinishes == <>(manifest.finished \/ (HasDocs /\ ~Started))
=============================================================================
