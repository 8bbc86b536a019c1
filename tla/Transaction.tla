----------------------------- MODULE Transaction -----------------------------
(* DB.Transaction and the operations under it (transaction.go): Begin with    *)
(* nested savepoints, Commit, Rollback, the deferred handling of errors and   *)
(* panics, retries of deadlocks, timeouts, manual savepoints and the          *)
(* AfterCommit event.  One goroutine runs calls of Transaction whose fn is    *)
(* arbitrary: it writes, ignores or returns errors, panics, and calls         *)
(* Transaction on the handle it was given.  Every database call is a step of  *)
(* its own, so that timeouts and connection failures fall between any two.    *)
(* AfterRollback and the errors of its handlers have no effect on Transaction *)
(* (lines 128 and 132 drop them) and are left out.                            *)
EXTENDS SqlTx

CONSTANTS
  MaxDepth,         \* bound on nested calls
  MaxWrites,        \* bound on writes of a behaviour
  MaxCalls,         \* bound on calls of Transaction of a behaviour
  Attempts,         \* TxAttempts / Retry.TxDeadlockAttempts
  NestedTimeouts,   \* a nested call may have its own TxTimeout
  SwallowDeadlock,  \* fn may go on after a deadlock error
  Deadlocks,        \* the database may report deadlocks
  HandlerResults,   \* what AfterCommit handlers return: "none", "plain", "deadlock"
  MaxManual,        \* bound on Savepoint calls of one fn
  MaxOpen           \* of which so many are open at a time

ASSUME TransactionAssumption ==
  /\ MaxDepth \in Nat \ {0} /\ Attempts \in Nat \ {0}
  /\ MaxWrites \in Nat /\ MaxCalls \in Nat /\ MaxManual \in Nat /\ MaxOpen \in Nat
  /\ NestedTimeouts \in BOOLEAN /\ SwallowDeadlock \in BOOLEAN /\ Deadlocks \in BOOLEAN
  /\ HandlerResults \subseteq {"none", "plain", "deadlock"} /\ HandlerResults # {}

VARIABLES
  stack,      \* the active calls of Transaction, outermost first
  nw,         \* number of writes so far; write number w is the w-th
  calls,      \* number of calls of Transaction so far
  failed,     \* history: writes of an fn that returned an error or panicked
  retried,    \* history: writes of an attempt that was run again
  rewound,    \* history: writes made after a savepoint that was rolled back to
  acked,      \* history: writes of outermost calls that returned nil
  announced   \* history: writes whose AfterCommit event was emitted

history == <<failed, retried, rewound, acked, announced>>
vars == <<engine, stack, nw, calls, history>>

Top == Len(stack)
Cur == stack[Top]
At(phase) == stack # <<>> /\ Cur.phase = phase

\* The writes of the attempt the current call is running.
Mine == (Cur.from + 1)..nw
Undone == failed \cup retried \cup rewound

\* fn of the innermost call has control and may go on.
InFn == At("fn") /\ (SwallowDeadlock \/ Cur.seen # "deadlock")

Goto(phase) == stack' = [stack EXCEPT ![Top].phase = phase]
Finish(err) == stack' = [stack EXCEPT ![Top].phase = "decide", ![Top].err = err]

Init ==
  /\ EngineInit
  /\ stack = <<>> /\ nw = 0 /\ calls = 0
  /\ failed = {} /\ retried = {} /\ rewound = {} /\ acked = {} /\ announced = {}

-----------------------------------------------------------------------------
(* Transaction and transactionOnce up to fn *)

\* A new call: from outside, or by fn on its handle.  Lines 79-102.
Call ==
  /\ calls < MaxCalls /\ calls' = calls + 1
  /\ IF stack = <<>> THEN conn = "free" ELSE InFn /\ Top < MaxDepth
  /\ stack' = Append(stack, [phase |-> "begin", try |-> 1, from |-> nw, expired |-> FALSE,
                             seen |-> "none", err |-> "none", manual |-> <<>>])
  /\ UNCHANGED <<engine, nw, history>>

\* Begin on a handle without a transaction.  Lines 143-169.
BeginOuter ==
  /\ At("begin") /\ Top = 1 /\ ~Cur.expired
  /\ TxBegin
  /\ Goto("fn")
  /\ UNCHANGED <<nw, calls, history>>

\* beginNested.  Lines 171-187.
BeginNested ==
  /\ At("begin") /\ Top > 1 /\ ~Cur.expired
  /\ ExecSavepoint(Top - 1)
  /\ Goto("fn")
  /\ UNCHANGED <<nw, calls, history>>

\* Begin returns an error: no connection, expired context, refused savepoint.
\* Lines 121-124, 156-159, 178-180.
BeginFails ==
  /\ At("begin")
  /\ \/ (Top = 1 \/ Cur.expired \/ conn = "free") /\ UNCHANGED engine
     \/ Top > 1 /\ ~Cur.expired /\ ExecRefused
  /\ Finish("plain")
  /\ UNCHANGED <<nw, calls, history>>

-----------------------------------------------------------------------------
(* What fn does with its handle *)

\* A statement on the transaction succeeds (runnerForQuery picks the sql.Tx).
Write ==
  /\ InFn /\ nw < MaxWrites
  /\ ExecWrite(nw + 1)
  /\ nw' = nw + 1
  /\ UNCHANGED <<stack, calls, history>>

\* A statement fails, or finds the sql.Tx done.
WriteFails ==
  /\ InFn
  /\ \/ ExecRefused
     \/ conn = "free" /\ UNCHANGED engine
  /\ stack' = [stack EXCEPT ![Top].seen = "plain"]
  /\ UNCHANGED <<nw, calls, history>>

\* A statement ends with an error the driver classifies as deadlock.
WriteDeadlocks ==
  /\ InFn /\ Deadlocks
  /\ ExecDeadlock
  /\ stack' = [stack EXCEPT ![Top].seen = "deadlock"]
  /\ UNCHANGED <<nw, calls, history>>

\* Savepoint.  Lines 248-258: every savepoint of a handle gets the same name,
\* which is also the name of a nested call's savepoint.
CreateSavepoint ==
  /\ InFn /\ Len(Cur.manual) < MaxManual
  /\ Cardinality({i \in DOMAIN Cur.manual : Cur.manual[i].open}) < MaxOpen
  /\ ExecSavepoint(Top)
  /\ stack' = [stack EXCEPT ![Top].manual = Append(@, [mark |-> nw, open |-> TRUE])]
  /\ UNCHANGED <<nw, calls, history>>

\* A bug: rolling back a savepoint releases it.
SavepointRollbackReleases(i) ==
  /\ InFn /\ Cur.manual[i].open
  /\ ExecRelease(Top)
  /\ stack' = [stack EXCEPT ![Top].manual[i].open = FALSE]
  /\ rewound' = rewound \cup (Cur.manual[i].mark + 1)..nw
  /\ UNCHANGED <<nw, calls, failed, retried, acked, announced>>

\* Savepoint.Rollback.  Lines 261-275.
SavepointRollback(i) ==
  /\ InFn /\ Cur.manual[i].open
  /\ ExecRollbackTo(Top)
  /\ stack' = [stack EXCEPT ![Top].manual[i].open = FALSE]
  /\ rewound' = rewound \cup (Cur.manual[i].mark + 1)..nw
  /\ UNCHANGED <<nw, calls, failed, retried, acked, announced>>

\* Savepoint.Release.  Lines 278-292.
SavepointRelease(i) ==
  /\ InFn /\ Cur.manual[i].open
  /\ ExecRelease(Top)
  /\ stack' = [stack EXCEPT ![Top].manual[i].open = FALSE]
  /\ UNCHANGED <<nw, calls, history>>

\* Either of them fails and leaves the savepoint open.  Lines 270-272, 287-289.
SavepointFails(i) ==
  /\ InFn /\ Cur.manual[i].open
  /\ Named(Top) = {} \/ srv # "active"
  /\ ExecRefused
  /\ stack' = [stack EXCEPT ![Top].seen = "plain"]
  /\ UNCHANGED <<nw, calls, history>>

\* fn returns nil: the deferred function goes to Commit.  Lines 135, 138-139.
FnReturnsNil ==
  /\ InFn
  /\ Goto("commit")
  /\ UNCHANGED <<engine, nw, calls, history>>

\* fn returns an error, or panics: the deferred function goes to Rollback.
\* Lines 127-134, 138-139.
FnFails ==
  /\ At("fn")
  /\ \E e \in {"plain", "deadlock", "panic"} :
       /\ e = "deadlock" => Cur.seen = "deadlock"
       /\ e # "deadlock" => InFn
       /\ stack' = [stack EXCEPT ![Top].phase = "rollback", ![Top].err = e]
  /\ failed' = failed \cup Mine
  /\ UNCHANGED <<engine, nw, calls, retried, rewound, acked, announced>>

-----------------------------------------------------------------------------
(* The deferred function of transactionOnce: Commit *)

\* Commit at depth 0, then AfterCommit.  Lines 209-213.
CommitOuter ==
  /\ At("commit") /\ Top = 1
  /\ TxCommit
  /\ \E h \in HandlerResults : Finish(h)
  /\ announced' = announced \cup (Mine \ Undone)
  /\ UNCHANGED <<nw, calls, failed, retried, rewound, acked>>

\* A bug: AfterCommit is emitted although the commit failed.
CommitOuterFailsLoudly ==
  /\ At("commit") /\ Top = 1 /\ ~ctxDone /\ TxDiscard /\ Finish("plain")
  /\ announced' = announced \cup (Mine \ Undone)
  /\ UNCHANGED <<nw, calls, failed, retried, rewound, acked>>

\* Commit at depth 0 fails (lines 209-211): the context is done or the sql.Tx
\* already is; the server refuses, as PostgreSQL does when the transaction is
\* aborted or cannot be serialized; or the connection fails after the server
\* committed.  database/sql marks the sql.Tx done in the last two cases.
CommitOuterFails ==
  /\ At("commit") /\ Top = 1
  /\ \/ (ctxDone \/ conn = "free") /\ UNCHANGED engine /\ Finish("plain")
     \/ /\ ~ctxDone /\ TxDiscard
        /\ \/ Finish("plain")
           \/ Deadlocks /\ Dialect = "pgsql" /\ Finish("deadlock")
     \/ TxCommit /\ Finish("plain")
  /\ UNCHANGED <<nw, calls, history>>

\* A bug: a nested commit rolls its savepoint back.
CommitNestedRewinds ==
  /\ At("commit") /\ Top > 1 /\ ~Cur.expired
  /\ ExecRollbackTo(Top - 1)
  /\ \E h \in HandlerResults : Finish(h)
  /\ announced' = announced \cup (Mine \ Undone)
  /\ UNCHANGED <<nw, calls, failed, retried, rewound, acked>>

\* Commit at depth > 0 releases the savepoint, then AfterCommit.  Lines 199-208.
CommitNested ==
  /\ At("commit") /\ Top > 1 /\ ~Cur.expired
  /\ ExecRelease(Top - 1)
  /\ \E h \in HandlerResults : Finish(h)
  /\ announced' = announced \cup (Mine \ Undone)
  /\ UNCHANGED <<nw, calls, failed, retried, rewound, acked>>

\* The release fails.  Lines 200-202.
CommitNestedFails ==
  /\ At("commit") /\ Top > 1
  /\ \/ (Cur.expired \/ conn = "free") /\ UNCHANGED engine
     \/ ~Cur.expired /\ (Named(Top - 1) = {} \/ srv # "active") /\ ExecRefused
  /\ Finish("plain")
  /\ UNCHANGED <<nw, calls, history>>

-----------------------------------------------------------------------------
(* The deferred function of transactionOnce: Rollback, whose error is dropped *)

Settled == stack' = [stack EXCEPT ![Top].phase = "decide"]

\* A bug: the deferred function commits although fn failed.
RollbackOuterCommits ==
  /\ At("rollback") /\ Top = 1
  /\ IF conn = "open" THEN TxCommit ELSE UNCHANGED engine
  /\ Settled
  /\ UNCHANGED <<nw, calls, history>>

\* A bug: a panic skips the rollback.
RollbackOuterSkipsPanic ==
  /\ At("rollback") /\ Top = 1
  /\ IF conn = "open" /\ Cur.err # "panic" THEN TxDiscard ELSE UNCHANGED engine
  /\ Settled
  /\ UNCHANGED <<nw, calls, history>>

\* Rollback at depth 0; a sql.Tx that is done already gives ErrTxDone.
\* Lines 233-237.
RollbackOuter ==
  /\ At("rollback") /\ Top = 1
  /\ IF conn = "open" THEN TxDiscard ELSE UNCHANGED engine
  /\ Settled
  /\ UNCHANGED <<nw, calls, history>>

\* A bug: only the outermost call rolls back.
RollbackNestedNever ==
  /\ At("rollback") /\ Top > 1 /\ ~Cur.expired
  /\ Settled
  /\ UNCHANGED <<engine, nw, calls, history>>

\* Rollback at depth > 0 goes back to the savepoint.  Lines 226-231.
RollbackNested ==
  /\ At("rollback") /\ Top > 1 /\ ~Cur.expired
  /\ ExecRollbackTo(Top - 1)
  /\ Settled
  /\ UNCHANGED <<nw, calls, history>>

\* ... and fails, because the call's own context has expired, the sql.Tx is done
\* or the server lost the savepoint.  Lines 227-229.
RollbackNestedFails ==
  /\ At("rollback") /\ Top > 1
  /\ \/ (Cur.expired \/ conn = "free") /\ UNCHANGED engine
     \/ ~Cur.expired /\ Named(Top - 1) = {} /\ ExecRefused
  /\ Settled
  /\ UNCHANGED <<nw, calls, history>>

-----------------------------------------------------------------------------
(* The loop of Transaction after an attempt *)

\* Another attempt begins.
Again ==
  /\ stack' = [stack EXCEPT ![Top] = [@ EXCEPT !.phase = "begin", !.try = @ + 1, !.from = nw,
                                               !.seen = "none", !.err = "none", !.manual = <<>>]]
  /\ retried' = retried \cup Mine
  /\ UNCHANGED <<engine, nw, calls, failed, rewound, acked, announced>>

\* A bug: any error is retried.
RetryAnyError ==
  At("decide") /\ Cur.err \in {"plain", "deadlock"} /\ Cur.try < Attempts /\ Again

\* A bug: attempts are not counted.
RetryForever ==
  /\ At("decide") /\ Cur.err = "deadlock"
  /\ stack' = [stack EXCEPT ![Top] = [@ EXCEPT !.phase = "begin", !.from = nw, !.seen = "none",
                                               !.err = "none", !.manual = <<>>]]
  /\ retried' = retried \cup Mine
  /\ UNCHANGED <<engine, nw, calls, failed, rewound, acked, announced>>

\* A retryable error and an attempt left; waitRetryBackoff returns nil.
\* Lines 107-115.
Retry ==
  At("decide") /\ Cur.err = "deadlock" /\ Cur.try < Attempts /\ Again

\* The call returns nil, an error (line 112: also when the context is done during
\* the backoff), or lets the panic pass on.  Lines 104-106, 108-110, 117, 129.  The
\* cancel deferred at line 99 finds the sql.Tx done (NoTxLeak).
Return ==
  /\ At("decide")
  /\ Cur.err # "deadlock" \/ Cur.try >= Attempts \/ Cur.expired
  /\ LET caller == SubSeq(stack, 1, Top - 1) IN
     CASE Top = 1 ->
            /\ stack' = <<>>
            /\ acked' = IF Cur.err = "none" THEN acked \cup (Mine \ Undone) ELSE acked
            /\ UNCHANGED failed
       [] Top > 1 /\ Cur.err = "panic" ->
            /\ stack' = [caller EXCEPT ![Top - 1].phase = "rollback", ![Top - 1].err = "panic"]
            /\ failed' = failed \cup (stack[Top - 1].from + 1)..nw
            /\ UNCHANGED acked
       [] OTHER ->
            /\ stack' = IF Cur.err = "none" THEN caller
                        ELSE [caller EXCEPT ![Top - 1].seen = Cur.err]
            /\ UNCHANGED <<failed, acked>>
  /\ UNCHANGED <<engine, nw, calls, retried, rewound, announced>>

-----------------------------------------------------------------------------
(* The environment *)

\* The deadline of a call's context passes (lines 94-99); the outermost one is
\* the context the sql.Tx was begun with.
Expire(i) ==
  /\ ~stack[i].expired /\ (i = 1 \/ NestedTimeouts)
  /\ stack' = [stack EXCEPT ![i].expired = TRUE]
  /\ ctxDone' = IF i = 1 /\ conn = "open" THEN TRUE ELSE ctxDone
  /\ UNCHANGED <<conn, srv, work, sps, durable, nw, calls, history>>

\* database/sql rolls back when the context of BeginTx is done.
AwaitDone ==
  /\ ctxDone /\ TxDiscard
  /\ UNCHANGED <<stack, nw, calls, history>>

Break == ConnBreaks /\ UNCHANGED <<stack, nw, calls, history>>

Manual == stack # <<>> /\ \E i \in DOMAIN Cur.manual :
            SavepointRollback(i) \/ SavepointRelease(i) \/ SavepointFails(i)

\* The steps of the library after fn has returned, and of database/sql.
Library ==
  \/ BeginOuter \/ BeginNested \/ BeginFails
  \/ CommitOuter \/ CommitOuterFails \/ CommitNested \/ CommitNestedFails
  \/ RollbackOuter \/ RollbackNested \/ RollbackNestedFails
  \/ Retry \/ Return

Next ==
  \/ Call \/ Write \/ WriteFails \/ WriteDeadlocks
  \/ CreateSavepoint \/ Manual
  \/ FnReturnsNil \/ FnFails
  \/ Library
  \/ \E i \in DOMAIN stack : Expire(i)
  \/ AwaitDone \/ Break

Spec == Init /\ [][Next]_vars

\* The library's own calls and database/sql's rollback of an expired transaction
\* are not delayed forever, and fn returns: a fn that hangs keeps its transaction.
FairSpec ==
  /\ Spec
  /\ WF_vars(Library) /\ WF_vars(AwaitDone) /\ WF_vars(FnReturnsNil \/ FnFails)

-----------------------------------------------------------------------------
\* The shape of the stack: only the innermost call can be outside its fn.
TypeOK ==
  /\ EngineTypeOK
  /\ nw \in 0..MaxWrites /\ calls \in 0..MaxCalls
  /\ stack \in Seq([phase : {"begin", "fn", "commit", "rollback", "decide"},
                    try : 1..Attempts, from : 0..MaxWrites, expired : BOOLEAN,
                    seen : {"none", "plain", "deadlock"},
                    err : {"none", "plain", "deadlock", "panic"},
                    manual : Seq([mark : 0..MaxWrites, open : BOOLEAN])])
  /\ Len(stack) <= MaxDepth
  /\ \A i \in 1..(Top - 1) : stack[i].phase = "fn" /\ stack[i].from <= stack[i + 1].from
  /\ failed \cup retried \cup rewound \cup acked \cup announced \subseteq 1..nw

\* "If fn returns an error or panics, the transaction is rolled back"
\* (transaction.go:78): no write of such an fn, or of a call nested in it, is
\* ever committed.
FnErrorRollsBack == failed \cap durable = {}

\* An attempt that is run again has left nothing behind: fn's writes are applied
\* by one attempt only.
RetryStartsClean == retried \cap durable = {}

\* "Rollback rolls back to the savepoint" (transaction.go:260): what was written
\* after the savepoint was created is never committed.
SavepointRollsBack == rewound \cap durable = {}

\* "Transaction runs fn inside a transaction and commits when fn returns nil"
\* (transaction.go:76): once the outermost call has returned nil, every write
\* that was not rolled back on purpose is durable.
NilMeansCommitted == acked \subseteq durable

\* "AfterCommit is emitted after a transaction commit" (event.go:40): the writes
\* it announces are durable, whatever happens later.
AfterCommitIsDurable == announced \subseteq durable

\* A sql.Tx never outlives its outermost call: it is done, or its context is and
\* database/sql is about to roll it back.
NoTxLeak == conn = "open" => stack # <<>> \/ ctxDone

\* Once the outermost call has returned, its connection goes back to the pool.
ConnectionReleased == (stack = <<>>) ~> (conn = "free")

\* A call whose fn returns gets to its own return, whatever errors, panics,
\* retries and timeouts there are: attempts are bounded.
CallReturns == (stack # <<>>) ~> (stack = <<>>)
=============================================================================
