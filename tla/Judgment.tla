------------------------------ MODULE Judgment ------------------------------
(***************************************************************************)
(* The external judgment of scripts/pivot-distill.ts: paid requests to a   *)
(* model, one session of a frozen bundle after the other, in an output     *)
(* directory that must survive kills, second runs and runs started with    *)
(* another mode or selection.  Every attempt is written to the session's   *)
(* attempt ledger before its request is sent; the session's result is      *)
(* written after the last attempt; a report is compiled at the end.        *)
(*                                                                         *)
(* A run is known by its mode and its selection (selectionHash).  Bundle,  *)
(* model and request profile are the same for every run of the directory,  *)
(* and sessions are selected in its order.  Left out: invalid/ and         *)
(* progress.json, which no run reads.                                      *)
(***************************************************************************)
EXTENDS Naturals, Sequences, FiniteSets

CONSTANTS
    Order,          \* the eligible sessions of the bundle, in its order
    MaxAttempts,    \* requestProfile.retryPolicy.maxSessionAttempts (3)
    MaxRuns,        \* bound: runs started in a behaviour
    None

Sessions == {Order[i] : i \in DOMAIN Order}
RunModes == {"transport", "regression", "full"}

\* assertExternalModeAuthorization and selectFrozenEntries: transport takes one
\* session, regression some, full every eligible one.
Selections(mode) ==
    CASE mode = "transport" -> {{s} : s \in Sessions}
      [] mode = "regression" -> SUBSET Sessions \ {{}}
      [] mode = "full" -> {Sessions}

Identities == UNION {{[mode |-> m, sel |-> S] : S \in Selections(m)} : m \in RunModes}

\* The states of an attempt, and what the files and the runs' memories hold.
AttemptStates == {"in-flight", "invalid", "error", "ok"}
AttemptLists == {q \in Seq(AttemptStates) : Len(q) \in 1 .. MaxAttempts}
Ledgers == [id : Identities, attempts : AttemptLists]
Results == [id : Identities, status : AttemptStates \ {"in-flight"}, attempts : 1 .. MaxAttempts]
Reports == [id : Identities, status : {"building", "partial", "complete"}]
RunRecords ==
    [id : Identities, exhausted : BOOLEAN, target : {"partial", "complete"},
     index : 1 .. Len(Order) + 1,
     pc : {"session", "reserve", "send", "answer", "retry", "result", "report", "compile",
           "release"}]

ASSUME OrderAssumption == Order \in Seq(Sessions) /\ Sessions # {}
ASSUME AttemptsAssumption == MaxAttempts \in Nat \ {0} /\ MaxRuns \in Nat
ASSUME NoneAssumption == None \notin Nat \cup Ledgers \cup Results \cup Reports \cup RunRecords

VARIABLES
    lock,           \* .pivot-distill.lock: None, or the run that created it
    ledgers,        \* attempts/<session>: None, or its run's identity and attempts
    result,         \* results/<session>
    report,         \* report-state.json: None, or its identity and status
    runs,           \* the runs started, each with its progress; None once it is gone
    paid            \* ghost: requests sent for a session

judgmentVars == <<lock, ledgers, result, report, runs, paid>>

Run == 1 .. Len(runs)
Live(r) == runs[r] # None
Session(r) == Order[runs[r].index]

\* Only the run itself moves its record.
Becomes(r, rec) == runs' = [runs EXCEPT ![r] = rec]
RunGoesTo(r, place) == Becomes(r, [runs[r] EXCEPT !.pc = place])
NextSession(r, exhausted) ==
    Becomes(r, [id |-> runs[r].id, pc |-> "session", index |-> runs[r].index + 1,
                exhausted |-> exhausted, target |-> runs[r].target])
ToReport(r, target) ==
    Becomes(r, [id |-> runs[r].id, pc |-> "report", index |-> runs[r].index,
                exhausted |-> runs[r].exhausted, target |-> target])

-----------------------------------------------------------------------------
\* storedAttemptLedgerMatches, for a run of identity id.
ValidLedger(l, id) ==
    /\ l # None
    /\ l.id = id
    /\ Len(l.attempts) \in 1 .. MaxAttempts
    /\ \A i \in 1 .. Len(l.attempts) - 1 : l.attempts[i] \in {"invalid", "error"}

\* storedResultMatches.
ValidResult(x, id) ==
    /\ x # None
    /\ x.id = id
    /\ x.attempts \in 1 .. MaxAttempts

\* resultMatchesAttemptLedger.
Agree(x, l) ==
    /\ Len(l.attempts) = x.attempts
    /\ l.attempts[Len(l.attempts)] = x.status

\* The complete report's audit: every session of the selection has one strict
\* ok result with a matching ledger.
AllJudged(id) ==
    \A s \in id.sel :
        /\ ValidResult(result[s], id)
        /\ result[s].status = "ok"
        /\ ValidLedger(ledgers[s], id)
        /\ Agree(result[s], ledgers[s])

-----------------------------------------------------------------------------
JudgmentInit ==
    /\ lock = None
    /\ ledgers = [s \in Sessions |-> None]
    /\ result = [s \in Sessions |-> None]
    /\ report = None
    /\ runs = <<>>
    /\ paid = [s \in Sessions |-> 0]

\* Fault: the lock of a run that has not written anything yet is taken for stale.
StartBeside(id) ==
    /\ Len(runs) < MaxRuns
    /\ lock # None => Live(lock) /\ runs[lock].pc = "reserve"
    /\ lock' = Len(runs) + 1
    /\ runs' = Append(runs, [id |-> id, pc |-> "session", index |-> 1,
                             exhausted |-> FALSE, target |-> "partial"])
    /\ UNCHANGED <<ledgers, result, report, paid>>

\* main: the lock file is created exclusively, or the run refuses.
Start(id) ==
    /\ Len(runs) < MaxRuns
    /\ lock = None
    /\ lock' = Len(runs) + 1
    /\ runs' = Append(runs, [id |-> id, pc |-> "session", index |-> 1,
                             exhausted |-> FALSE, target |-> "partial"])
    /\ UNCHANGED <<ledgers, result, report, paid>>

\* The loop skips what the run has not selected.
Skip(r) ==
    /\ runs[r].pc = "session" /\ runs[r].index <= Len(Order)
    /\ Session(r) \notin runs[r].id.sel
    /\ NextSession(r, runs[r].exhausted)
    /\ UNCHANGED <<lock, ledgers, result, report, paid>>

AtSession(r) ==
    /\ runs[r].pc = "session" /\ runs[r].index <= Len(Order)
    /\ Session(r) \in runs[r].id.sel

\* Fault: a ledger without a result is started over.
RefusesResultsOnly(r) ==
    LET s == Session(r) id == runs[r].id IN
    /\ result[s] # None
    /\ \/ ~ValidResult(result[s], id)
       \/ ~(ValidLedger(ledgers[s], id) /\ Agree(result[s], ledgers[s]))
       \/ result[s].status # "ok" /\ id.mode # "full"

\* A result that is not this run's, that no ledger matches, or that failed in a
\* mode that stops at a failure; or a ledger without a result: the run compiles
\* a partial report and throws.
Refuses(r) ==
    LET s == Session(r) id == runs[r].id IN
    \/ /\ result[s] # None
       /\ \/ ~ValidResult(result[s], id)
          \/ ~(ValidLedger(ledgers[s], id) /\ Agree(result[s], ledgers[s]))
          \/ result[s].status # "ok" /\ id.mode # "full"
    \/ result[s] = None /\ ledgers[s] # None

Refuse(r) ==
    /\ AtSession(r) /\ Refuses(r)
    /\ ToReport(r, "partial")
    /\ UNCHANGED <<lock, ledgers, result, report, paid>>

\* A finished session is resumed without a request.
Resume(r) ==
    /\ AtSession(r) /\ ~Refuses(r)
    /\ result[Session(r)] # None
    /\ NextSession(r, runs[r].exhausted \/ result[Session(r)].status # "ok")
    /\ UNCHANGED <<lock, ledgers, result, report, paid>>

\* Fault: a full run tries its exhausted sessions again.
ExamineAgain(r) ==
    /\ AtSession(r) /\ ~Refuses(r)
    /\ result[Session(r)] # None => result[Session(r)].status # "ok"
    /\ RunGoesTo(r, "reserve")
    /\ UNCHANGED <<lock, ledgers, result, report, paid>>

\* A session without a ledger or a result is to be judged.
Examine(r) ==
    /\ AtSession(r) /\ ~Refuses(r)
    /\ result[Session(r)] = None
    /\ RunGoesTo(r, "reserve")
    /\ UNCHANGED <<lock, ledgers, result, report, paid>>

\* The attempt is in the ledger before its request leaves.
Reserve(r) ==
    /\ runs[r].pc \in {"reserve", "retry"}
    /\ ledgers' = [ledgers EXCEPT ![Session(r)] =
           [id |-> runs[r].id,
            attempts |-> Append(IF runs[r].pc = "retry" THEN @.attempts ELSE <<>>,
                                "in-flight")]]
    /\ RunGoesTo(r, "send")
    /\ UNCHANGED <<lock, result, report, paid>>

Send(r) ==
    /\ runs[r].pc = "send"
    /\ paid' = [paid EXCEPT ![Session(r)] = @ + 1]
    /\ RunGoesTo(r, "answer")
    /\ UNCHANGED <<lock, ledgers, result, report>>

\* The answer, or its absence, is written over the in-flight entry.
Settled(s, state) ==
    LET q == ledgers[s].attempts IN
    [id |-> ledgers[s].id, attempts |-> [q EXCEPT ![Len(q)] = state]]

AnswerOk(r) ==
    /\ runs[r].pc = "answer"
    /\ ledgers' = [ledgers EXCEPT ![Session(r)] = Settled(Session(r), "ok")]
    /\ RunGoesTo(r, "result")
    /\ UNCHANGED <<lock, result, report, paid>>

\* A failure is retried while retryDecision allows it: never past the last
\* attempt, and not after a permanent error.
AnswerFailed(r, state) ==
    /\ runs[r].pc = "answer"
    /\ ledgers' = [ledgers EXCEPT ![Session(r)] = Settled(Session(r), state)]
    /\ \/ Len(ledgers[Session(r)].attempts) < MaxAttempts /\ RunGoesTo(r, "retry")
       \/ RunGoesTo(r, "result")
    /\ UNCHANGED <<lock, result, report, paid>>

\* The result, and what a failed one means in each mode.
WriteResult(r) ==
    /\ runs[r].pc = "result"
    /\ LET s == Session(r)
           attempts == ledgers[s].attempts
           status == attempts[Len(attempts)]
       IN /\ result' = [result EXCEPT ![s] =
                 [id |-> runs[r].id, status |-> status, attempts |-> Len(attempts)]]
          /\ IF status # "ok" /\ runs[r].id.mode # "full"
             THEN ToReport(r, "partial")
             ELSE NextSession(r, runs[r].exhausted \/ status # "ok")
    /\ UNCHANGED <<lock, ledgers, report, paid>>

\* compileRunReports is called at the end of the loop ...
LoopEnds(r) ==
    /\ runs[r].pc = "session" /\ runs[r].index > Len(Order)
    /\ ToReport(r, IF runs[r].exhausted THEN "partial" ELSE "complete")
    /\ UNCHANGED <<lock, ledgers, result, report, paid>>

\* ... and marks the report as building before it reads the results back.
BeginReport(r) ==
    /\ runs[r].pc = "report"
    /\ report' = [id |-> runs[r].id, status |-> "building"]
    /\ RunGoesTo(r, "compile")
    /\ UNCHANGED <<lock, ledgers, result, paid>>

EndReport(r) ==
    /\ runs[r].pc = "compile"
    /\ report' = [id |-> runs[r].id,
                  status |-> IF runs[r].target = "complete" /\ ~AllJudged(runs[r].id)
                             THEN "partial" ELSE runs[r].target]
    /\ RunGoesTo(r, "release")
    /\ UNCHANGED <<lock, ledgers, result, paid>>

\* The lock is unlinked when it is still the run's own.
ReleaseOutputLock(r) ==
    /\ runs[r].pc = "release"
    /\ lock' = IF lock = r THEN None ELSE lock
    /\ Becomes(r, None)
    /\ UNCHANGED <<ledgers, result, report, paid>>

\* A kill leaves the lock file and everything written so far.
KillRun(r) ==
    /\ Becomes(r, None)
    /\ UNCHANGED <<lock, ledgers, result, report, paid>>

\* The operator has seen that the holder is gone, and moves its lock aside.
MoveLockAside ==
    /\ lock # None
    /\ ~Live(lock)
    /\ lock' = None
    /\ UNCHANGED <<ledgers, result, report, runs, paid>>

JudgmentNext ==
    \/ \E id \in Identities : Start(id)
    \/ MoveLockAside
    \/ \E r \in {q \in Run : Live(q)} :
          \/ Skip(r) \/ Refuse(r) \/ Resume(r) \/ Examine(r) \/ Reserve(r) \/ Send(r) \/ AnswerOk(r)
          \/ \E state \in {"invalid", "error"} : AnswerFailed(r, state)
          \/ WriteResult(r) \/ LoopEnds(r) \/ BeginReport(r) \/ EndReport(r)
          \/ ReleaseOutputLock(r) \/ KillRun(r)

JudgmentSpec == JudgmentInit /\ [][JudgmentNext]_judgmentVars

-----------------------------------------------------------------------------
\* Types of the output directory's files and of the runs.
JudgmentTypeOK ==
    /\ runs \in Seq(RunRecords \cup {None})
    /\ lock \in Run \cup {None}
    /\ ledgers \in [Sessions -> Ledgers \cup {None}]
    /\ result \in [Sessions -> Results \cup {None}]
    /\ report \in Reports \cup {None}
    /\ paid \in [Sessions -> Nat]

\* Whatever is killed, restarted or started with another selection, a directory
\* never pays for more requests of a session than its ledger shows, and so never
\* for more than maxSessionAttempts (the write before the request, and the
\* refusal to resume a ledger without a result).
EveryRequestIsReserved ==
    \A s \in Sessions :
        paid[s] <= IF ledgers[s] = None THEN 0 ELSE Len(ledgers[s].attempts)

\* A complete report is true, and stays so under later runs: each session it
\* selected has an ok result of its identity, made by the last of the attempts
\* that its ledger shows.
CompleteIsTrue ==
    report # None /\ report.status = "complete" =>
        \A s \in report.id.sel :
            /\ result[s] # None /\ ledgers[s] # None
            /\ result[s].id = report.id /\ ledgers[s].id = report.id
            /\ result[s].status = "ok"
            /\ result[s].attempts = Len(ledgers[s].attempts)
            /\ ledgers[s].attempts[result[s].attempts] = "ok"

\* What has been judged is never judged again or rewritten: a result, and the
\* ledger it was made from, are final.
ResultsAreFinal ==
    [][\A s \in Sessions : result[s] # None =>
          result'[s] = result[s] /\ ledgers'[s] = ledgers[s] /\ paid'[s] = paid[s]]_judgmentVars
=============================================================================
