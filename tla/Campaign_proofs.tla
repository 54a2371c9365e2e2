--------------------------- MODULE Campaign_proofs ---------------------------
(***************************************************************************)
(* The properties of Campaign, for every plan, number of attempts and      *)
(* number of crashes.  The inductive invariant ties the process to the     *)
(* files: while it runs its memory equals the disk, its setting is the     *)
(* frozen one, and the pass it is in accounts for every key of the plan.   *)
(***************************************************************************)
EXTENDS Campaign, SequenceTheorems, TLAPS

\* While the process runs, what it holds in memory is what the files say.
Synced ==
  pc # "off" => mem = runs /\ memUnsupported = unsupported /\ book = manifest

Blank == manifest.frozen = {} => manifest = NoManifest

Adopted == pc \in {"declaring", "opening", "running"} => manifest.frozen = {given}

Declared ==
  pc \in {"opening", "running"} => Refused[given] \subseteq unsupported /\ ~manifest.finished

\* Keys of the pass have been tried `attempt` times without success; the others
\* are done, or have been tried more often.
PassAccounts(n) ==
  IF n \in todo
  THEN ~Done(runs[Order[given][n]]) /\ Len(runs[Order[given][n]]) = attempt
  ELSE Done(runs[Order[given][n]]) \/ Len(runs[Order[given][n]]) > attempt

Passing ==
  pc = "running" =>
    manifest.sessions > 0 /\ \A n \in 1 .. Len(Order[given]) : PassAccounts(n)

Books == AttemptsInOrder /\ RecordsNameTheirSession /\ FinishedMeansDone /\ RetriesComeLast

IInv == TypeOK /\ Synced /\ Blank /\ Adopted /\ Declared /\ Passing /\ Books

-----------------------------------------------------------------------------
LEMMA PlanTypes ==
  ASSUME NEW s \in Settings
  PROVE  /\ Order[s] \in Seq(Keys)
         /\ Len(Order[s]) \in Nat
         /\ \A n \in 1 .. Len(Order[s]) : Order[s][n] \in Keys
         /\ Planned(s) \subseteq Keys
BY CampaignAssumption DEF Planned

LEMMA KeyTypes == \A k \in Keys : ClientOf(k) \in Clients
BY DEF Keys, ClientOf

\* A key that is done has been tried.
LEMMA DoneMeansTried ==
  ASSUME NEW attempts \in Seq(Record), Done(attempts)
  PROVE  attempts # << >> /\ Len(attempts) > 0
<1>1. Len(attempts) \in Nat
  BY LenProperties
<1>2. CASE Len(attempts) >= MaxAttempts
  BY <1>1, <1>2, CampaignAssumption
<1>3. CASE \E n \in 1 .. Len(attempts) : attempts[n].status # "invalid"
  BY <1>1, <1>3
<1> QED BY <1>2, <1>3 DEF Done

\* Saving the document of one client writes the memory, when the memory differs from
\* the disk in that client's runs only.
LEMMA SavedRuns ==
  ASSUME NEW c, NEW f \in [Keys -> Seq(Record)], NEW r \in [Keys -> Seq(Record)],
         \A k \in Keys : ClientOf(k) # c => f[k] = r[k]
  PROVE  [k \in Keys |-> IF ClientOf(k) = c THEN f[k] ELSE r[k]] = f
OBVIOUS

\* What Measure does, once memory and disk are known to agree.
LEMMA Measured ==
  ASSUME IInv, NEW status \in Statuses, Measure(status)
  PROVE  \E n \in todo : \E record \in Record :
           /\ n \in 1 .. Len(Order[given])
           /\ todo' = todo \ {n}
           /\ record.status = status /\ record.attempt = attempt
           /\ record.session < manifest.sessions /\ record.under = given
           /\ mem' = [runs EXCEPT ![Order[given][n]] = Append(@, record)]
           /\ runs' = [runs EXCEPT ![Order[given][n]] = Append(@, record)]
           /\ unsupported' = unsupported
<1>1. PICK n \in todo :
        /\ todo' = todo \ {n}
        /\ LET k == Order[given][n]
               record == [status |-> status, attempt |-> attempt,
                          session |-> book.sessions - 1, under |-> given]
           IN /\ mem' = [mem EXCEPT ![k] = Append(@, record)]
              /\ SaveDoc(ClientOf(k), mem', memUnsupported)
  BY DEF Measure
<1> DEFINE k == Order[given][n]
           record == [status |-> status, attempt |-> attempt,
                      session |-> book.sessions - 1, under |-> given]
<1>2. pc = "running" /\ mem = runs /\ memUnsupported = unsupported /\ book = manifest
  BY DEF Measure, IInv, Synced
<1>3. /\ manifest.sessions \in Nat /\ manifest.sessions > 0 /\ given \in Settings
      /\ attempt \in Nat /\ n \in 1 .. Len(Order[given])
      /\ runs \in [Keys -> Seq(Record)] /\ MaxAttempts \in Nat
  BY <1>2, CampaignAssumption DEF IInv, TypeOK, Manifest, Passing
<1>4. k \in Keys
  BY <1>3, PlanTypes
<1>5. record \in Record /\ record.session < manifest.sessions
  BY <1>2, <1>3 DEF Record
<1>6. mem' = [runs EXCEPT ![k] = Append(@, record)]
  BY <1>1, <1>2
<1>7. mem' \in [Keys -> Seq(Record)]
  <2>1. Append(runs[k], record) \in Seq(Record)
    BY <1>3, <1>4, <1>5, AppendProperties
  <2> QED BY <2>1, <1>3, <1>6
<1>8. runs' = mem'
  <2>1. runs' = [j \in Keys |-> IF ClientOf(j) = ClientOf(k) THEN mem'[j] ELSE runs[j]]
    BY <1>1 DEF SaveDoc
  <2>2. \A j \in Keys : ClientOf(j) # ClientOf(k) => mem'[j] = runs[j]
    BY <1>3, <1>6
  <2> QED BY <2>1, <2>2, <1>3, <1>7, SavedRuns
<1>9. unsupported' = unsupported
  BY <1>1, <1>2 DEF SaveDoc
<1>10. record.status = status /\ record.attempt = attempt /\ record.under = given
  OBVIOUS
<1> QED BY <1>1, <1>3, <1>5, <1>6, <1>8, <1>9, <1>10

\* What Declare does.
LEMMA DeclaredPair ==
  ASSUME IInv, NEW u \in Points \X Clients, Declare(u)
  PROVE  /\ runs' = runs
         /\ unsupported' = unsupported \cup {u} /\ memUnsupported' = unsupported'
<1>1. pc = "declaring" /\ mem = runs /\ memUnsupported = unsupported /\ runs \in [Keys -> Seq(Record)]
  BY DEF Declare, IInv, Synced, TypeOK
<1>2. runs' = runs
  BY <1>1, SavedRuns DEF Declare, SaveDoc
<1>3. memUnsupported' = unsupported \cup {u}
  BY <1>1 DEF Declare
<1>4. unsupported' = {v \in unsupported : v[2] # u[2]} \cup {v \in memUnsupported' : v[2] = u[2]}
  BY DEF Declare, SaveDoc
<1> QED BY <1>2, <1>3, <1>4

-----------------------------------------------------------------------------
LEMMA BooksKept == Books /\ UNCHANGED disk => Books'
BY SMTT(30) DEF Books, disk, AttemptsInOrder, RecordsNameTheirSession, FinishedMeansDone, RetriesComeLast,
       Started, Planned, Done

LEMMA InitInv == Init => IInv
<1> SUFFICES ASSUME Init PROVE IInv
  OBVIOUS
<1>1. NoRuns \in [Keys -> Seq(Record)]
  BY EmptySeq DEF NoRuns
<1>2. manifest = NoManifest /\ manifest.frozen = {} /\ ~manifest.finished
  BY DEF Init, NoManifest
<1>3. runs \in [Keys -> Seq(Record)] /\ AttemptsInOrder
  <2>1. CASE runs = NoRuns
    BY <1>1, <2>1, CampaignAssumption DEF AttemptsInOrder, NoRuns
  <2>2. CASE \E s \in Settings, k \in Keys : runs = Foreign(s, k)
    <3>1. PICK s \in Settings, k \in Keys : runs = Foreign(s, k)
      BY <2>2
    <3> DEFINE r == [status |-> "valid", attempt |-> 0, session |-> 0, under |-> s]
    <3>2. r \in Record /\ r.attempt = 0
      BY DEF Record, Statuses
    <3>3. runs = [NoRuns EXCEPT ![k] = <<r>>]
      BY <3>1 DEF Foreign
    <3> HIDE DEF r
    <3>4. <<r>> \in Seq(Record) /\ Len(<<r>>) = 1 /\ <<r>>[1] = r
      BY <3>2
    <3>5. runs \in [Keys -> Seq(Record)]
      BY <1>1, <3>3, <3>4
    <3>6. \A j \in Keys : runs[j] = IF j = k THEN <<r>> ELSE << >>
      BY <1>1, <3>3 DEF NoRuns
    <3>7. AttemptsInOrder
      <4>1. ASSUME NEW j \in Keys
            PROVE  /\ Len(runs[j]) <= 1
                   /\ \A n \in 1 .. Len(runs[j]) : runs[j][n] = r /\ n = 1
        <5>1. CASE j = k
          <6>1. runs[j] = <<r>>
            BY <3>6, <5>1
          <6> QED BY <3>4, <6>1
        <5>2. CASE j # k
          <6>1. runs[j] = << >> /\ Len(<< >>) = 0
            BY <3>6, <5>2
          <6> QED BY <6>1
        <5> QED BY <5>1, <5>2
      <4>2. 1 <= MaxAttempts /\ MaxAttempts \in Nat
        BY CampaignAssumption
      <4>3. ASSUME NEW j \in Keys
            PROVE  Len(runs[j]) <= MaxAttempts
        <5>1. Len(runs[j]) <= 1 /\ Len(runs[j]) \in Nat
          BY <3>5, <4>1
        <5> QED BY <4>2, <5>1
      <4>4. ASSUME NEW j \in Keys, NEW n \in 1 .. Len(runs[j])
            PROVE  runs[j][n].attempt = n - 1 /\ ~(n < Len(runs[j]))
        <5>1. runs[j][n] = r /\ n = 1 /\ Len(runs[j]) <= 1
          BY <4>1
        <5>2. Len(runs[j]) \in Nat
          BY <3>5
        <5> QED BY <3>2, <5>1, <5>2
      <4> QED BY <4>3, <4>4 DEF AttemptsInOrder
    <3> QED BY <3>5, <3>7
  <2> QED BY <2>1, <2>2 DEF Init
<1>4. TypeOK
  BY <1>1, <1>2, <1>3, CampaignAssumption DEF Init, TypeOK, Manifest, NoManifest
<1>5. Synced /\ Blank /\ Adopted /\ Declared /\ Passing
  BY <1>2 DEF Init, Synced, Blank, Adopted, Declared, Passing
<1>6. Books
  BY <1>2, <1>3 DEF Books, RecordsNameTheirSession, FinishedMeansDone, RetriesComeLast, Started
<1> QED BY <1>4, <1>5, <1>6 DEF IInv

LEMMA LoadInv == ASSUME IInv, NEW s \in Settings, Load(s) PROVE IInv'
<1>1. TypeOK'
  BY CampaignAssumption DEF IInv, Load, TypeOK, disk
<1>2. Synced' /\ Blank' /\ Adopted' /\ Declared' /\ Passing'
  BY DEF IInv, Load, Synced, Blank, Adopted, Declared, Passing, disk
<1>3. Books'
  BY BooksKept DEF IInv, Load
<1> QED BY <1>1, <1>2, <1>3 DEF IInv

LEMMA StopInv == ASSUME IInv, Refuse \/ Crash PROVE IInv'
<1>1. TypeOK'
  <2>1. UNCHANGED <<manifest, runs, unsupported, given, mem, memUnsupported, book, attempt, todo>>
    BY DEF Refuse, Crash, disk, memory
  <2>2. pc' = "off" /\ crashes' \in 0 .. MaxCrashes
    BY CampaignAssumption DEF IInv, TypeOK, Refuse, Crash
  <2> QED BY <2>1, <2>2 DEF IInv, TypeOK
<1>2. Synced' /\ Blank' /\ Adopted' /\ Declared' /\ Passing'
  BY DEF IInv, Refuse, Crash, Synced, Blank, Adopted, Declared, Passing, disk, memory
<1>3. Books'
  BY BooksKept DEF IInv, Refuse, Crash
<1> QED BY <1>1, <1>2, <1>3 DEF IInv

\* A manifest is frozen over an empty directory, or kept as it is.
LEMMA FreezeInv == ASSUME IInv, Freeze PROVE IInv'
<1>1. /\ pc = "loaded" /\ pc' = "declaring" /\ mem = runs /\ book = manifest /\ given' = given
      /\ memUnsupported = unsupported /\ manifest' = book' /\ given \in Settings
      /\ manifest \in Manifest
  BY DEF IInv, Freeze, Synced, TypeOK
<1>2. CASE manifest.frozen = {}
  <2>1. manifest' = [NoManifest EXCEPT !.frozen = {given}]
    BY <1>1, <1>2 DEF Freeze
  <2>2. manifest'.frozen = {given} /\ manifest'.sessions = 0 /\ ~manifest'.finished
        /\ manifest' \in Manifest
    <3>1. manifest' = [frozen |-> {given}, sessions |-> 0, finished |-> FALSE]
      BY <2>1 DEF NoManifest
    <3> QED BY <1>1, <3>1 DEF Manifest
  <2>3. runs' = runs /\ \A k \in Keys : runs[k] = << >>
    BY <1>2 DEF Freeze, MayProceed, HasDocs
  <2>4. TypeOK'
    BY <1>1, <2>2 DEF IInv, TypeOK, Freeze
  <2>5. Synced' /\ Blank' /\ Adopted' /\ Declared' /\ Passing'
    BY <1>1, <2>2 DEF Freeze, Synced, Blank, Adopted, Declared, Passing
  <2>6. Books'
    BY <2>2, <2>3 DEF Books, IInv, AttemptsInOrder, RecordsNameTheirSession, FinishedMeansDone,
                      RetriesComeLast
  <2> QED BY <2>4, <2>5, <2>6 DEF IInv
<1>3. CASE manifest.frozen # {}
  <2>1. manifest' = manifest /\ manifest.frozen = {given}
    BY <1>1, <1>3 DEF Freeze, MayProceed
  <2>2. TypeOK'
    BY <1>1, <2>1 DEF IInv, TypeOK, Freeze
  <2>3. Synced' /\ Blank' /\ Adopted' /\ Declared' /\ Passing'
    BY <1>1, <2>1 DEF IInv, Freeze, Synced, Blank, Adopted, Declared, Passing
  <2>4. Books'
    BY <2>1, BooksKept DEF IInv, Freeze, disk
  <2> QED BY <2>2, <2>3, <2>4 DEF IInv
<1> QED BY <1>2, <1>3

LEMMA DeclareInv == ASSUME IInv, NEW u \in Points \X Clients, Declare(u) PROVE IInv'
<1>1. runs' = runs /\ unsupported' = unsupported \cup {u} /\ memUnsupported' = unsupported'
  BY DeclaredPair
<1>2. /\ pc = "declaring" /\ pc' = pc /\ manifest' = manifest /\ book' = book /\ mem' = mem
      /\ given' = given /\ attempt' = attempt /\ todo' = todo /\ crashes' = crashes
  BY DEF Declare
<1>3. TypeOK'
  BY <1>1, <1>2 DEF IInv, TypeOK
<1>4. Synced' /\ Blank' /\ Adopted' /\ Declared' /\ Passing'
  BY <1>1, <1>2 DEF IInv, Synced, Blank, Adopted, Declared, Passing
<1>5. AttemptsInOrder' /\ RecordsNameTheirSession' /\ RetriesComeLast'
  BY <1>1, <1>2 DEF IInv, Books, AttemptsInOrder, RecordsNameTheirSession, RetriesComeLast,
                    Started, Planned
<1>6. FinishedMeansDone'
  BY <1>1, <1>2 DEF IInv, Books, FinishedMeansDone, Planned, Done
<1> QED BY <1>3, <1>4, <1>5, <1>6 DEF IInv, Books

\* finished_at is written over a plan that is done and pairs that are declared.
LEMMA Finished ==
  ASSUME IInv, WriteFinished, mem = runs, book = manifest, manifest.frozen = {given},
         UNCHANGED <<runs, unsupported, given>>,
         \A k \in Planned(given) : Done(runs[k]), Refused[given] \subseteq unsupported
  PROVE  Books' /\ manifest' \in Manifest /\ book' = manifest' /\ manifest'.frozen = {given}
<1>1. manifest \in Manifest
  BY DEF IInv, TypeOK
<1>2. /\ manifest'.frozen = {given} /\ manifest'.sessions = manifest.sessions
      /\ manifest' \in Manifest /\ book' = manifest'
  BY <1>1 DEF WriteFinished, Manifest
<1>3. AttemptsInOrder'
  BY DEF IInv, Books, AttemptsInOrder
<1>4. RecordsNameTheirSession' /\ RetriesComeLast'
  BY <1>2 DEF IInv, Books, RecordsNameTheirSession, RetriesComeLast, Started, Planned
<1>5. FinishedMeansDone'
  BY <1>2 DEF FinishedMeansDone, Planned, Done
<1> QED BY <1>2, <1>3, <1>4, <1>5 DEF Books

LEMMA DecideInv == ASSUME IInv, Decide PROVE IInv'
<1>1. /\ pc = "declaring" /\ mem = runs /\ memUnsupported = unsupported /\ book = manifest
      /\ manifest.frozen = {given} /\ Refused[given] \subseteq unsupported
      /\ UNCHANGED <<runs, unsupported, given, mem, memUnsupported, attempt, todo, crashes>>
  BY DEF IInv, Decide, Synced, Adopted
<1>2. CASE AllDone /\ pc' = "off" /\ WriteFinished
  <2>1. \A k \in Planned(given) : Done(runs[k])
    BY <1>1, <1>2 DEF AllDone
  <2>2. Books' /\ manifest' \in Manifest /\ book' = manifest' /\ manifest'.frozen = {given}
    BY <1>1, <1>2, <2>1, Finished
  <2>3. TypeOK'
    BY <1>1, <1>2, <2>2 DEF IInv, TypeOK
  <2>4. Synced' /\ Blank' /\ Adopted' /\ Declared' /\ Passing'
    BY <1>2, <2>2 DEF Synced, Blank, Adopted, Declared, Passing
  <2> QED BY <2>2, <2>3, <2>4 DEF IInv
<1>3. CASE ~AllDone /\ pc' = "opening" /\ UNCHANGED <<manifest, book>>
  <2>1. ~manifest.finished
    BY <1>1, <1>3 DEF IInv, Books, FinishedMeansDone, AllDone
  <2>2. TypeOK'
    BY <1>1, <1>3 DEF IInv, TypeOK
  <2>3. Synced' /\ Blank' /\ Adopted' /\ Declared' /\ Passing'
    BY <1>1, <1>3, <2>1 DEF IInv, Synced, Blank, Adopted, Declared, Passing
  <2>4. Books'
    BY <1>1, <1>3, BooksKept DEF IInv, disk
  <2> QED BY <2>2, <2>3, <2>4 DEF IInv
<1> QED BY <1>2, <1>3 DEF Decide

\* The keys of a new pass, and those it leaves out.
LEMMA PassAccounted ==
  ASSUME IInv, mem = runs, NEW a \in 0 .. MaxAttempts - 1, NEW n \in 1 .. Len(Order[given]),
         \/ a = 0
         \/ Done(runs[Order[given][n]])
         \/ Len(runs[Order[given][n]]) >= a
  PROVE  IF n \in Pass(a)
         THEN ~Done(runs[Order[given][n]]) /\ Len(runs[Order[given][n]]) = a
         ELSE Done(runs[Order[given][n]]) \/ Len(runs[Order[given][n]]) > a
<1>1. Len(runs[Order[given][n]]) \in Nat
  BY PlanTypes, LenProperties DEF IInv, TypeOK
<1> QED BY <1>1, CampaignAssumption DEF Pass

LEMMA OpenSessionInv == ASSUME IInv, OpenSession PROVE IInv'
<1>1. /\ pc = "opening" /\ mem = runs /\ memUnsupported = unsupported /\ book = manifest
      /\ manifest.frozen = {given} /\ Refused[given] \subseteq unsupported /\ ~manifest.finished
      /\ pc' = "running" /\ attempt' = 0 /\ todo' = Pass(0) /\ manifest' = book'
      /\ UNCHANGED <<runs, unsupported, given, mem, memUnsupported, crashes>>
  BY DEF IInv, OpenSession, Synced, Adopted, Declared
<1>2. /\ manifest' \in Manifest /\ manifest'.frozen = {given} /\ ~manifest'.finished
      /\ manifest'.sessions = manifest.sessions + 1 /\ manifest.sessions \in Nat
  <2>1. manifest \in Manifest /\ manifest' = [manifest EXCEPT !.sessions = @ + 1]
    BY <1>1 DEF IInv, TypeOK, OpenSession
  <2> QED BY <1>1, <2>1 DEF Manifest
<1>3. Pass(0) \subseteq 1 .. Len(Order[given])
  BY DEF Pass
<1>4. TypeOK'
  BY <1>1, <1>2, <1>3, CampaignAssumption DEF IInv, TypeOK
<1>5. Synced' /\ Blank' /\ Adopted' /\ Declared'
  BY <1>1, <1>2 DEF Synced, Blank, Adopted, Declared
<1>6. Passing'
  <2>1. \A n \in 1 .. Len(Order[given]) :
          IF n \in Pass(0)
          THEN ~Done(runs[Order[given][n]]) /\ Len(runs[Order[given][n]]) = 0
          ELSE Done(runs[Order[given][n]]) \/ Len(runs[Order[given][n]]) > 0
    BY <1>1, PassAccounted, CampaignAssumption
  <2>2. \A n \in 1 .. Len(Order[given]) : PassAccounts(n)'
    BY <1>1, <2>1 DEF PassAccounts, Done
  <2> QED BY <1>1, <1>2, <2>2 DEF Passing
<1>7. AttemptsInOrder' /\ FinishedMeansDone' /\ RetriesComeLast'
  BY <1>1, <1>2 DEF IInv, Books, AttemptsInOrder, FinishedMeansDone, RetriesComeLast, Started, Planned
<1>8. RecordsNameTheirSession'
  <2>1. SUFFICES ASSUME NEW k \in Keys, NEW n \in 1 .. Len(runs[k])
                 PROVE  runs[k][n].session < manifest'.sessions /\ manifest'.frozen = {runs[k][n].under}
    BY <1>1 DEF RecordsNameTheirSession
  <2>2. runs[k][n].session < manifest.sessions /\ manifest.frozen = {runs[k][n].under}
    BY <1>1 DEF IInv, Books, RecordsNameTheirSession, Started
  <2>3. runs[k][n].session \in Nat
    <3>1. runs[k] \in Seq(Record)
      BY DEF IInv, TypeOK
    <3>2. runs[k][n] \in Record
      BY <3>1, ElementOfSeq
    <3> QED BY <3>2 DEF Record
  <2>4. runs[k][n].session < manifest'.sessions
    BY <1>2, <2>2, <2>3
  <2>5. manifest'.frozen = {runs[k][n].under}
    <3>1. manifest'.frozen = manifest.frozen
      BY <1>1, <1>2
    <3> QED BY <2>2, <3>1
  <2> QED BY <2>4, <2>5
<1> QED BY <1>4, <1>5, <1>6, <1>7, <1>8 DEF IInv, Books

LEMMA NextPassInv == ASSUME IInv, NextPass PROVE IInv'
<1>1. /\ pc = "running" /\ mem = runs /\ todo = {} /\ attempt + 1 < MaxAttempts /\ attempt \in Nat
      /\ attempt' = attempt + 1 /\ todo' = Pass(attempt + 1) /\ pc' = pc
      /\ UNCHANGED <<manifest, runs, unsupported, given, mem, memUnsupported, book, crashes>>
  BY CampaignAssumption DEF IInv, NextPass, Synced, TypeOK, disk
<1>2. Pass(attempt + 1) \subseteq 1 .. Len(Order[given])
  BY DEF Pass
<1>3. TypeOK'
  BY <1>1, <1>2, CampaignAssumption DEF IInv, TypeOK
<1>4. Synced' /\ Blank' /\ Adopted' /\ Declared'
  BY <1>1 DEF IInv, Synced, Blank, Adopted, Declared
<1>5. Passing'
  <2>1. ASSUME NEW n \in 1 .. Len(Order[given])
        PROVE  PassAccounts(n)'
    <3>1. Done(runs[Order[given][n]]) \/ Len(runs[Order[given][n]]) > attempt
      BY <1>1 DEF IInv, Passing, PassAccounts
    <3>2. Len(runs[Order[given][n]]) \in Nat
      BY PlanTypes, LenProperties DEF IInv, TypeOK
    <3>3. Done(runs[Order[given][n]]) \/ Len(runs[Order[given][n]]) >= attempt + 1
      BY <1>1, <3>1, <3>2
    <3>4. IF n \in Pass(attempt + 1)
          THEN ~Done(runs[Order[given][n]]) /\ Len(runs[Order[given][n]]) = attempt + 1
          ELSE Done(runs[Order[given][n]]) \/ Len(runs[Order[given][n]]) > attempt + 1
      BY <1>1, <3>3, PassAccounted, CampaignAssumption
    <3> QED BY <1>1, <3>4 DEF PassAccounts, Done
  <2> QED BY <1>1, <2>1 DEF IInv, Passing
<1>6. Books'
  BY <1>1, BooksKept DEF IInv, disk
<1> QED BY <1>3, <1>4, <1>5, <1>6 DEF IInv

\* What the pass says of the key about to be measured.
LEMMA Untried ==
  ASSUME IInv, pc = "running", NEW n \in todo
  PROVE  /\ Order[given][n] \in Keys /\ runs[Order[given][n]] \in Seq(Record)
         /\ Len(runs[Order[given][n]]) = attempt /\ attempt \in 0 .. MaxAttempts - 1
         /\ \A i \in 1 .. attempt : /\ runs[Order[given][n]][i].status = "invalid"
                                  /\ runs[Order[given][n]][i].attempt = i - 1
<1>1. n \in 1 .. Len(Order[given]) /\ given \in Settings /\ attempt \in 0 .. MaxAttempts - 1
  BY DEF IInv, TypeOK
<1>2. Order[given][n] \in Keys /\ runs[Order[given][n]] \in Seq(Record)
  BY <1>1, PlanTypes DEF IInv, TypeOK
<1>3. ~Done(runs[Order[given][n]]) /\ Len(runs[Order[given][n]]) = attempt
  BY <1>1 DEF IInv, Passing, PassAccounts
<1>4. \A i \in 1 .. attempt : runs[Order[given][n]][i].status = "invalid"
  BY <1>3 DEF Done
<1>5. \A i \in 1 .. attempt : runs[Order[given][n]][i].attempt = i - 1
  BY <1>2, <1>3 DEF IInv, Books, AttemptsInOrder
<1> QED BY <1>1, <1>2, <1>3, <1>4, <1>5

LEMMA MeasureInv == ASSUME IInv, NEW status \in Statuses, Measure(status) PROVE IInv'
<1>1. PICK n \in todo : \E record \in Record :
        /\ n \in 1 .. Len(Order[given])
        /\ todo' = todo \ {n}
        /\ record.status = status /\ record.attempt = attempt
        /\ record.session < manifest.sessions /\ record.under = given
        /\ mem' = [runs EXCEPT ![Order[given][n]] = Append(@, record)]
        /\ runs' = [runs EXCEPT ![Order[given][n]] = Append(@, record)]
        /\ unsupported' = unsupported
  BY Measured
<1>2. PICK record \in Record :
        /\ n \in 1 .. Len(Order[given])
        /\ todo' = todo \ {n}
        /\ record.status = status /\ record.attempt = attempt
        /\ record.session < manifest.sessions /\ record.under = given
        /\ mem' = [runs EXCEPT ![Order[given][n]] = Append(@, record)]
        /\ runs' = [runs EXCEPT ![Order[given][n]] = Append(@, record)]
        /\ unsupported' = unsupported
  BY <1>1
<1> DEFINE k == Order[given][n]
<1>3. /\ pc = "running" /\ manifest.frozen = {given} /\ ~manifest.finished
      /\ Refused[given] \subseteq unsupported /\ given \in Settings
      /\ UNCHANGED <<manifest, pc, given, memUnsupported, book, attempt, crashes>>
  BY DEF IInv, TypeOK, Measure, Adopted, Declared
<1>4. /\ k \in Keys /\ runs[k] \in Seq(Record)
      /\ Len(runs[k]) = attempt /\ attempt \in 0 .. MaxAttempts - 1
      /\ \A i \in 1 .. attempt : runs[k][i].status = "invalid" /\ runs[k][i].attempt = i - 1
  BY <1>3, Untried
<1>5. runs \in [Keys -> Seq(Record)] /\ MaxAttempts \in Nat
  BY CampaignAssumption DEF IInv, TypeOK
<1> HIDE DEF k
<1>6. /\ mem' = runs' /\ runs' = [runs EXCEPT ![k] = Append(runs[k], record)]
      /\ runs'[k] = Append(runs[k], record)
      /\ \A j \in Keys : j # k => runs'[j] = runs[j]
  BY <1>2, <1>4, <1>5 DEF k
<1>7. /\ runs'[k] \in Seq(Record) /\ Len(runs'[k]) = attempt + 1
      /\ \A i \in 1 .. attempt : runs'[k][i] = runs[k][i]
      /\ runs'[k][attempt + 1] = record
  BY <1>4, <1>6, AppendProperties
<1>8. TypeOK'
  <2>1. runs' \in [Keys -> Seq(Record)]
    BY <1>4, <1>5, <1>6, <1>7
  <2> QED BY <1>2, <1>3, <1>6, <2>1 DEF IInv, TypeOK
<1>9. Synced' /\ Blank' /\ Adopted' /\ Declared'
  BY <1>2, <1>3, <1>6 DEF IInv, Synced, Blank, Adopted, Declared
<1>10. Passing'
  <2>1. ASSUME NEW m \in 1 .. Len(Order[given])
        PROVE  PassAccounts(m)'
    <3>1. CASE m = n
      <4>1. m \notin todo' /\ Order[given][m] = k
        BY <1>2, <3>1 DEF k
      <4>2. Len(runs'[k]) > attempt
        BY <1>4, <1>7
      <4> QED BY <1>3, <4>1, <4>2 DEF PassAccounts
    <3>2. CASE m # n
      <4>1. Order[given][m] # k /\ Order[given][m] \in Keys
        BY <1>2, <1>3, <3>2, PlanTypes, CampaignAssumption DEF k
      <4>2. runs'[Order[given][m]] = runs[Order[given][m]] /\ (m \in todo' <=> m \in todo)
        BY <1>2, <1>6, <3>2, <4>1
      <4>3. PassAccounts(m)
        BY <1>3 DEF IInv, Passing
      <4> QED BY <1>3, <4>2, <4>3 DEF PassAccounts, Done
    <3> QED BY <3>1, <3>2
  <2> QED BY <1>3, <2>1 DEF IInv, Passing
<1>11. AttemptsInOrder'
  <2>1. ASSUME NEW j \in Keys
        PROVE  /\ Len(runs'[j]) <= MaxAttempts
               /\ \A i \in 1 .. Len(runs'[j]) :
                    /\ runs'[j][i].attempt = i - 1
                    /\ i < Len(runs'[j]) => runs'[j][i].status = "invalid"
    <3>1. CASE j = k
      <4>1. Len(runs'[j]) <= MaxAttempts
        BY <1>4, <1>5, <1>7, <3>1
      <4>2. ASSUME NEW i \in 1 .. Len(runs'[j])
            PROVE  /\ runs'[j][i].attempt = i - 1
                   /\ i < Len(runs'[j]) => runs'[j][i].status = "invalid"
        <5>1. CASE i \in 1 .. attempt
          BY <1>4, <1>7, <3>1, <5>1
        <5>2. CASE i = attempt + 1
          BY <1>2, <1>4, <1>7, <3>1, <5>2
        <5> QED BY <1>4, <1>7, <3>1, <5>1, <5>2
      <4> QED BY <4>1, <4>2
    <3>2. CASE j # k
      BY <1>6, <3>2 DEF IInv, Books, AttemptsInOrder
    <3> QED BY <3>1, <3>2
  <2> QED BY <2>1 DEF AttemptsInOrder
<1>12. RecordsNameTheirSession'
  <2>1. ASSUME NEW j \in Keys, NEW i \in 1 .. Len(runs'[j])
        PROVE  runs'[j][i].session < manifest.sessions /\ manifest.frozen = {runs'[j][i].under}
    <3>1. CASE j = k /\ i = attempt + 1
      <4>1. runs'[j][i] = record
        BY <1>7, <3>1
      <4> QED BY <1>2, <1>3, <4>1
    <3>2. CASE ~(j = k /\ i = attempt + 1)
      <4>1. i \in 1 .. Len(runs[j]) /\ runs'[j][i] = runs[j][i]
        BY <1>4, <1>6, <1>7, <3>2
      <4> QED BY <1>3, <4>1 DEF IInv, Books, RecordsNameTheirSession, Started
    <3> QED BY <3>1, <3>2
  <2> QED BY <1>3, <2>1 DEF RecordsNameTheirSession
<1>13. FinishedMeansDone'
  BY <1>3 DEF FinishedMeansDone
<1>14. RetriesComeLast'
  <2>1. SUFFICES ASSUME NEW x \in Keys, Len(runs'[x]) > 1, NEW y \in Planned(given)
                 PROVE  runs'[y] # << >>
    BY <1>3 DEF RetriesComeLast, Planned
  <2>2. y \in Keys
    BY <1>3, PlanTypes
  <2>3. CASE Len(runs[x]) > 1
    <3>1. runs[y] # << >>
      BY <1>3, <2>3 DEF IInv, Books, RetriesComeLast, Started
    <3> QED BY <1>4, <1>6, <2>2, <3>1, AppendProperties
  <2>4. CASE ~(Len(runs[x]) > 1)
    <3>1. x = k
      BY <1>6, <2>1, <2>4
    <3>2. attempt > 0
      BY <1>4, <1>7, <2>1, <3>1
    <3>3. PICK m \in 1 .. Len(Order[given]) : y = Order[given][m]
      BY DEF Planned
    <3>4. PassAccounts(m)
      BY <1>3 DEF IInv, Passing
    <3>5. runs[y] \in Seq(Record) /\ Len(runs[y]) \in Nat
      BY <1>5, <2>2
    <3>6. runs[y] # << >>
      <4>1. CASE Done(runs[y])
        BY <3>5, <4>1, DoneMeansTried
      <4>2. CASE Len(runs[y]) >= attempt
        BY <1>4, <3>2, <3>5, <4>2
      <4> QED BY <1>4, <3>3, <3>4, <3>5, <4>1, <4>2 DEF PassAccounts
    <3> QED BY <1>4, <1>6, <2>2, <3>6, AppendProperties, SMTT(30)
  <2> QED BY <2>3, <2>4
<1> QED BY <1>8, <1>9, <1>10, <1>11, <1>12, <1>13, <1>14 DEF IInv, Books

\* Once the last pass has ended, every key of the plan is done.
LEMMA LastPass ==
  ASSUME IInv, Finish
  PROVE  \A k \in Planned(given) : Done(runs[k])
<1>1. pc = "running" /\ todo = {} /\ attempt + 1 = MaxAttempts /\ attempt \in Nat /\ given \in Settings
  BY CampaignAssumption DEF IInv, TypeOK, Finish
<1>2. SUFFICES ASSUME NEW n \in 1 .. Len(Order[given])
               PROVE  Done(runs[Order[given][n]])
  BY DEF Planned
<1>3. Done(runs[Order[given][n]]) \/ Len(runs[Order[given][n]]) > attempt
  BY <1>1 DEF IInv, Passing, PassAccounts
<1>4. Len(runs[Order[given][n]]) \in Nat
  BY <1>1, PlanTypes, LenProperties DEF IInv, TypeOK
<1> QED BY <1>1, <1>3, <1>4 DEF Done

LEMMA FinishInv == ASSUME IInv, Finish PROVE IInv'
<1>1. /\ mem = runs /\ book = manifest /\ memUnsupported = unsupported
      /\ manifest.frozen = {given} /\ Refused[given] \subseteq unsupported
      /\ WriteFinished /\ pc' = "off"
      /\ UNCHANGED <<runs, unsupported, given, mem, memUnsupported, attempt, todo, crashes>>
  BY DEF IInv, Finish, Synced, Adopted, Declared
<1>2. Books' /\ manifest' \in Manifest /\ book' = manifest' /\ manifest'.frozen = {given}
  BY <1>1, LastPass, Finished
<1>3. TypeOK'
  BY <1>1, <1>2 DEF IInv, TypeOK
<1>4. Synced' /\ Blank' /\ Adopted' /\ Declared' /\ Passing'
  BY <1>1, <1>2 DEF Synced, Blank, Adopted, Declared, Passing
<1> QED BY <1>2, <1>3, <1>4 DEF IInv

LEMMA StutterInv == IInv /\ UNCHANGED vars => IInv'
<1> SUFFICES ASSUME IInv, UNCHANGED vars PROVE IInv'
  OBVIOUS
<1>1. TypeOK' /\ Synced' /\ Blank' /\ Adopted' /\ Declared'
  BY DEF IInv, TypeOK, Synced, Blank, Adopted, Declared, vars, disk, memory
<1>2. Passing'
  BY DEF IInv, Passing, PassAccounts, Done, vars, disk, memory
<1>3. Books'
  BY BooksKept DEF IInv, vars
<1> QED BY <1>1, <1>2, <1>3 DEF IInv

\* The inductive invariant holds throughout: the files, the process and its pass agree.
THEOREM Invariance == Spec => []IInv
<1>1. Init => IInv
  BY InitInv
<1>2. IInv /\ [Next]_vars => IInv'
  <2> SUFFICES ASSUME IInv, [Next]_vars PROVE IInv'
    OBVIOUS
  <2>1. ASSUME NEW s \in Settings, Load(s) PROVE IInv'
    BY <2>1, LoadInv
  <2>2. ASSUME NEW u \in Points \X Clients, Declare(u) PROVE IInv'
    BY <2>2, DeclareInv
  <2>3. ASSUME NEW status \in Statuses, Measure(status) PROVE IInv'
    BY <2>3, MeasureInv
  <2>4. CASE Refuse \/ Crash
    BY <2>4, StopInv
  <2>5. CASE Freeze
    BY <2>5, FreezeInv
  <2>6. CASE Decide
    BY <2>6, DecideInv
  <2>7. CASE OpenSession
    BY <2>7, OpenSessionInv
  <2>8. CASE NextPass
    BY <2>8, NextPassInv
  <2>9. CASE Finish
    BY <2>9, FinishInv
  <2>10. CASE UNCHANGED vars
    BY <2>10, StutterInv
  <2> QED BY <2>1, <2>2, <2>3, <2>4, <2>5, <2>6, <2>7, <2>8, <2>9, <2>10 DEF Next
<1> QED BY <1>1, <1>2, PTL DEF Spec

\* Every reachable state is well typed.
THEOREM CampaignTypeCorrect == Spec => []TypeOK
BY Invariance, PTL DEF IInv

\* A valid run is never repeated, an invalid one is retried up to MaxAttempts,
\* and no key is, in any session, before every key has been tried.
THEOREM RulesAreFollowed == Spec => []AttemptsFollowTheRules
BY Invariance, PTL DEF IInv, Books, AttemptsFollowTheRules

\* Every record names a session on disk and was measured with the frozen settings;
\* finished_at stands over a plan that is done and pairs that are declared.
THEOREM ManifestStands == Spec => []ManifestIsTrue
BY Invariance, PTL DEF IInv, Books, ManifestIsTrue

-----------------------------------------------------------------------------
(* Campaign implements Ledger. *)

Plans == UNION {Planned(s) : s \in manifest.frozen}

LEMMA PlanOfFrozen ==
  ASSUME NEW s, NEW F, F = {s}
  PROVE  UNION {Planned(x) : x \in F} = Planned(s)
OBVIOUS

LEMMA SettledIsDone ==
  ASSUME Started, NEW k \in Keys
  PROVE  AbstractLedger!Settled(k) <=> Done(runs[k])
<1>1. verdicts[k] = [n \in 1 .. Len(runs[k]) |-> runs[k][n].status]
  BY DEF verdicts
<1> QED BY <1>1 DEF AbstractLedger!Settled, Done

\* The ledger of a step that leaves the runs and the frozen settings alone.
LEMMA SameLedger ==
  ASSUME runs' = runs, manifest'.frozen = manifest.frozen
  PROVE  Plans' = Plans /\ verdicts' = verdicts
BY DEF Plans, Planned, verdicts, Started

LEMMA LedgerInit == Init => AbstractLedger!Init
<1> SUFFICES ASSUME Init PROVE AbstractLedger!Init
  OBVIOUS
<1>1. manifest.frozen = {} /\ manifest.finished = FALSE
  BY DEF Init, NoManifest
<1>2. UNION {Planned(s) : s \in manifest.frozen} = {}
  BY <1>1
<1>3. verdicts = [k \in Keys |-> << >>]
  BY <1>1 DEF verdicts, Started
<1> QED BY <1>1, <1>2, <1>3 DEF AbstractLedger!Init

LEMMA LedgerFreeze ==
  ASSUME IInv, Freeze PROVE AbstractLedger!Freeze \/ UNCHANGED AbstractLedger!vars
<1>1. book = manifest /\ manifest' = book' /\ runs' = runs /\ given \in Settings
  BY DEF IInv, Freeze, Synced, TypeOK
<1>2. CASE manifest.frozen # {}
  <2>1. manifest' = manifest
    BY <1>1, <1>2 DEF Freeze
  <2> QED BY <1>1, <2>1, SameLedger DEF AbstractLedger!vars, Plans
<1>3. CASE manifest.frozen = {}
  <2>1. manifest = NoManifest /\ manifest' = [NoManifest EXCEPT !.frozen = {given}]
    BY <1>1, <1>3 DEF IInv, Blank, Freeze
  <2>2. manifest'.frozen = {given} /\ manifest.finished = FALSE /\ manifest'.finished = FALSE
    BY <2>1 DEF NoManifest
  <2>3. Plans = {} /\ Plans' = Planned(given) /\ Planned(given) \subseteq Keys
    BY <1>1, <1>3, <2>2, PlanTypes DEF Plans, Planned
  <2>4. \A k \in Keys : runs[k] = << >>
    BY <1>3 DEF Freeze, MayProceed, HasDocs
  <2>5. \A k \in Keys : [n \in 1 .. Len(runs[k]) |-> runs[k][n].status] = << >>
    BY <2>4
  <2>6. verdicts = [k \in Keys |-> << >>]
    BY <1>3 DEF verdicts, Started
  <2>7. verdicts' = [k \in Keys |-> << >>]
    BY <1>1, <2>2, <2>5 DEF verdicts, Started
  <2> QED BY <2>2, <2>3, <2>6, <2>7 DEF AbstractLedger!Freeze, Plans
<1> QED BY <1>2, <1>3

LEMMA LedgerMeasure ==
  ASSUME IInv, NEW status \in Statuses, Measure(status)
  PROVE  \E k \in Keys : AbstractLedger!Judge(k, status)
<1>1. PICK n \in todo : \E record \in Record :
        /\ n \in 1 .. Len(Order[given]) /\ record.status = status
        /\ runs' = [runs EXCEPT ![Order[given][n]] = Append(@, record)]
  BY Measured
<1>2. PICK record \in Record :
        /\ n \in 1 .. Len(Order[given]) /\ record.status = status
        /\ runs' = [runs EXCEPT ![Order[given][n]] = Append(@, record)]
  BY <1>1
<1> DEFINE k == Order[given][n]
<1>3. /\ pc = "running" /\ manifest.frozen = {given} /\ manifest.finished = FALSE
      /\ given \in Settings /\ manifest' = manifest
  BY DEF IInv, TypeOK, Manifest, Measure, Adopted, Declared
<1>4. k \in Keys /\ runs[k] \in Seq(Record) /\ ~Done(runs[k])
  BY <1>2, <1>3, Untried DEF IInv, Passing, PassAccounts
<1>5. runs \in [Keys -> Seq(Record)]
  BY DEF IInv, TypeOK
<1>6. k \in Plans /\ Plans' = Plans
  BY <1>2, <1>3 DEF Plans, Planned
<1> HIDE DEF k
<1>7. runs'[k] = Append(runs[k], record) /\ \A j \in Keys : j # k => runs'[j] = runs[j]
  BY <1>2, <1>4, <1>5 DEF k
<1>8. Started /\ Started'
  BY <1>3 DEF Started
<1>9. ~AbstractLedger!Settled(k)
  BY <1>4, <1>8, SettledIsDone
<1>10. verdicts'[k] = Append(verdicts[k], status)
  <2> DEFINE old == [m \in 1 .. Len(runs[k]) |-> runs[k][m].status]
             new == [m \in 1 .. Len(runs'[k]) |-> runs'[k][m].status]
  <2>1. verdicts[k] = old /\ verdicts'[k] = new
    BY <1>4, <1>8 DEF verdicts
  <2>2. /\ Len(runs[k]) \in Nat /\ Len(runs'[k]) = Len(runs[k]) + 1
        /\ \A m \in 1 .. Len(runs[k]) : runs'[k][m] = runs[k][m]
        /\ runs'[k][Len(runs[k]) + 1] = record
    BY <1>4, <1>7, AppendProperties, LenProperties
  <2>3. old \in Seq(Statuses) /\ Len(old) = Len(runs[k])
    <3>1. \A m \in 1 .. Len(runs[k]) : runs[k][m].status \in Statuses
      <4>1. \A m \in 1 .. Len(runs[k]) : runs[k][m] \in Record
        BY <1>4, ElementOfSeq
      <4>2. \A r \in Record : r.status \in Statuses
        BY DEF Record
      <4> QED BY <4>1, <4>2
    <3> QED BY <2>2, <3>1
  <2>4. new = Append(old, status)
    <3>1. /\ Append(old, status) \in Seq(Statuses) /\ Len(Append(old, status)) = Len(runs[k]) + 1
          /\ \A m \in 1 .. Len(runs[k]) : Append(old, status)[m] = old[m]
          /\ Append(old, status)[Len(runs[k]) + 1] = status
      BY <2>2, <2>3, AppendProperties
    <3>2. Append(old, status) = [m \in 1 .. Len(runs[k]) + 1 |-> Append(old, status)[m]]
      BY <3>1
    <3>3. \A m \in 1 .. Len(runs[k]) + 1 : runs'[k][m].status = Append(old, status)[m]
      BY <1>2, <2>2, <3>1
    <3> HIDE DEF old
    <3> QED BY <2>2, <3>2, <3>3
  <2> QED BY <2>1, <2>4
<1>11. verdicts' = [verdicts EXCEPT ![k] = Append(@, status)]
  <2>1. \A j \in Keys : j # k => verdicts'[j] = verdicts[j]
    BY <1>7, <1>8 DEF verdicts
  <2>2. verdicts' = [j \in Keys |-> verdicts'[j]] /\ verdicts = [j \in Keys |-> verdicts[j]]
    BY DEF verdicts
  <2> HIDE DEF verdicts
  <2> QED BY <1>4, <1>10, <2>1, <2>2
<1>12. AbstractLedger!Judge(k, status)
  BY <1>3, <1>6, <1>9, <1>11 DEF AbstractLedger!Judge, Plans
<1> QED BY <1>4, <1>12

LEMMA LedgerClose ==
  ASSUME IInv, WriteFinished, mem = runs, book = manifest, manifest.frozen = {given}, runs' = runs,
         \A k \in Planned(given) : Done(runs[k])
  PROVE  AbstractLedger!Close \/ UNCHANGED AbstractLedger!vars
<1>1. /\ manifest \in Manifest /\ given \in Settings
      /\ manifest' = [manifest EXCEPT !.finished = TRUE]
  BY DEF IInv, TypeOK, WriteFinished
<1>2. manifest'.frozen = manifest.frozen /\ manifest'.finished = TRUE /\ manifest.finished \in BOOLEAN
  BY <1>1 DEF Manifest
<1>3. Plans' = Plans /\ verdicts' = verdicts
  BY <1>2, SameLedger
<1>4. \A k \in Plans : AbstractLedger!Settled(k)
  <2>1. Plans = Planned(given) /\ Planned(given) \subseteq Keys /\ Started
    BY <1>1, PlanTypes DEF Plans, Started
  <2> QED BY <2>1, SettledIsDone
<1>5. CASE manifest.finished
  BY <1>2, <1>3, <1>5 DEF AbstractLedger!vars, Plans
<1>6. CASE ~manifest.finished
  BY <1>2, <1>3, <1>4, <1>6 DEF AbstractLedger!Close, Plans
<1> QED BY <1>5, <1>6

LEMMA LedgerStep ==
  ASSUME IInv, [Next]_vars PROVE [AbstractLedger!Next]_(AbstractLedger!vars)
<1>1. ASSUME UNCHANGED <<runs, manifest>>
      PROVE  UNCHANGED AbstractLedger!vars
  BY <1>1, SameLedger DEF AbstractLedger!vars, Plans
<1>2. ASSUME NEW s \in Settings, Load(s) PROVE UNCHANGED AbstractLedger!vars
  BY <1>1, <1>2 DEF Load, disk
<1>3. ASSUME NEW u \in Points \X Clients, Declare(u) PROVE UNCHANGED AbstractLedger!vars
  BY <1>1, <1>3, DeclaredPair DEF Declare
<1>4. ASSUME NEW status \in Statuses, Measure(status) PROVE AbstractLedger!Next
  BY <1>4, LedgerMeasure DEF AbstractLedger!Next
<1>5. CASE Freeze
  BY <1>5, LedgerFreeze DEF AbstractLedger!Next
<1>6. CASE Decide
  <2>1. /\ mem = runs /\ book = manifest /\ manifest.frozen = {given} /\ runs' = runs
    BY <1>6 DEF IInv, Decide, Synced, Adopted
  <2>2. CASE AllDone /\ WriteFinished
    BY <2>1, <2>2, LedgerClose DEF AllDone, AbstractLedger!Next
  <2>3. CASE UNCHANGED <<manifest, book>>
    BY <1>1, <2>1, <2>3
  <2> QED BY <1>6, <2>2, <2>3 DEF Decide
<1>7. CASE OpenSession
  <2>1. runs' = runs /\ manifest' = [manifest EXCEPT !.sessions = @ + 1] /\ manifest \in Manifest
    BY <1>7 DEF IInv, TypeOK, OpenSession, Synced
  <2>2. manifest'.frozen = manifest.frozen /\ manifest'.finished = manifest.finished
    BY <2>1 DEF Manifest
  <2> QED BY <2>1, <2>2, SameLedger DEF AbstractLedger!vars, Plans
<1>8. CASE Finish
  <2>1. /\ mem = runs /\ book = manifest /\ manifest.frozen = {given} /\ runs' = runs /\ WriteFinished
    BY <1>8 DEF IInv, Finish, Synced, Adopted
  <2> QED BY <1>8, <2>1, LastPass, LedgerClose DEF AbstractLedger!Next
<1>9. CASE Refuse \/ Crash \/ NextPass \/ UNCHANGED vars
  BY <1>1, <1>9 DEF Refuse, Crash, NextPass, vars, disk
<1> QED BY <1>2, <1>3, <1>4, <1>5, <1>6, <1>7, <1>8, <1>9 DEF Next

\* Whatever crashes and resumptions occur, the campaign is a ledger: a plan frozen
\* once, records only added, at most MaxAttempts each, closed when all are settled.
THEOREM CampaignImplementsLedger == Spec => ImplementsLedger
<1>1. Init => AbstractLedger!Init
  BY LedgerInit
<1>2. IInv /\ [Next]_vars => [AbstractLedger!Next]_(AbstractLedger!vars)
  BY LedgerStep
<1> QED BY <1>1, <1>2, Invariance, PTL DEF Spec, ImplementsLedger, AbstractLedger!Spec
=============================================================================
