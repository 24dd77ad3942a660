------------------------------- MODULE TapTurn --------------------------------
(***************************************************************************)
(* The flow-tap path of processWabotInboundJob: the student taps an answer *)
(* to the question about a passage.  Each attempt inserts an anchor row of *)
(* its own, has handleComprehensionAnswer check that the lesson in flight  *)
(* awaits an answer to that question, records it, starts the next lesson   *)
(* and replies.  Nothing of an earlier attempt is cleaned up.              *)
(***************************************************************************)
EXTENDS Integers

CONSTANTS Taps,       \* jobs that carry a tap
          TapTries,   \* `attempts` of the queue
          Questions,  \* passages with a question: each has one
          NoQuestion

ASSUME TapsAssumption == TapTries \in Nat \ {0} /\ NoQuestion \notin Questions

VARIABLES tap,      \* each job: where it is, its attempt, the question it is for
          steps,    \* literacy_lesson_states, `at` their created_at
          anchors,  \* anchor rows inserted so far, which are numbered
          undone,   \* the anchors that are rolled back
          shown     \* ghost: the anchors whose turn's reply the student got

tapVars == <<tap, steps, anchors, undone, shown>>

\* A row that asks question q, answers it, or is of a lesson without one yet.
Asks(q, by)       == [kind |-> "asks", q |-> q, opt |-> q, by |-> by, at |-> 1]
Answers(q, o, by) == [kind |-> "answers", q |-> q, opt |-> o, by |-> by, at |-> 1]
Reads(by) == [kind |-> "reads", q |-> NoQuestion, opt |-> NoQuestion, by |-> by, at |-> 1]

\* The newest row, and a row that is inserted after it.
Current     == {r \in steps : \A o \in steps : o.at <= r.at}
Insert(row) == \E r \in Current : steps' = steps \cup {[row EXCEPT !.at = r.at + 1]}

Asked == {r.q : r \in {s \in steps : s.kind = "asks"}}
\* A passage no row is of: the bank has some left for the student.
Unseen == Questions \ {r.q : r \in steps}

TapActive == {"anchor", "read", "drop", "insert", "chain", "send", "undo"}
At(t, at)  == tap' = [tap EXCEPT ![t].at = at]

\* The next attempt begins from the start, if there is one left.
NextTry(job) == IF job.try < TapTries THEN [job EXCEPT !.at = "anchor", !.try = @ + 1]
                                      ELSE [job EXCEPT !.at = "failed"]

TapInit ==
  /\ tap = [t \in Taps |-> [at |-> "wait", try |-> 1, q |-> NoQuestion, anchor |-> 0,
                            read |-> NoQuestion, window |-> "none"]]
  /\ \E q \in Questions : steps = {Asks(q, 0)}
  /\ anchors = 0 /\ undone = {} /\ shown = {}

\* wabot hands over one message at a time until it gives up on it; one that comes
\* in between is flagged consecutive and ignored.  The student can tap an answer to
\* any question that was ever asked.
TapArrives(t) ==
  /\ tap[t].at = "wait"
  /\ \E q \in Asked :
       tap' = IF \E o \in Taps : tap[o].window = "open"
              THEN [tap EXCEPT ![t].at = "skipped"]
              ELSE [tap EXCEPT ![t].at = "anchor", ![t].q = q, ![t].window = "open"]
  /\ UNCHANGED <<steps, anchors, undone, shown>>

TapExpires(t) ==
  /\ tap[t].window = "open" /\ tap' = [tap EXCEPT ![t].window = "expired"]
  /\ UNCHANGED <<steps, anchors, undone, shown>>

\* createTextMedia: a new row, whatever an earlier attempt inserted.
InsertAnchor(t) ==
  /\ tap[t].at = "anchor" /\ anchors' = anchors + 1
  /\ tap' = [tap EXCEPT ![t].at = "read", ![t].anchor = anchors + 1]
  /\ UNCHANGED <<steps, undone, shown>>

AwaitsAny(row, q) == row.kind = "asks"  \* mutant: of whatever passage
\* The lesson is in the state `comprehension`, and the answer is an option of its
\* passage's question.
Awaits(row, q) == row.kind = "asks" /\ row.q = q

ReadQuestion(t) ==
  /\ tap[t].at = "read"
  /\ \E row \in Current :
       tap' = [tap EXCEPT ![t].at = IF Awaits(row, tap[t].q) THEN "insert" ELSE "drop",
                          ![t].read = row.q]
  /\ UNCHANGED <<steps, anchors, undone, shown>>

\* An ignored tap: markRolledBack, whose failure is swallowed, and no reply.
DropAnchor(t) ==
  /\ tap[t].at = "drop" /\ At(t, "skipped")
  /\ \/ undone' = undone \cup {tap[t].anchor}
     \/ UNCHANGED undone
  /\ UNCHANGED <<steps, anchors, shown>>

\* COMPREHENSION_ANSWER completes the lesson that was read, whatever came since.
InsertAnswer(t) ==
  /\ tap[t].at = "insert" /\ tap[t].anchor \notin undone /\ At(t, "chain")
  /\ Insert(Answers(tap[t].read, tap[t].q, tap[t].anchor))
  /\ UNCHANGED <<anchors, undone, shown>>

\* processAnswer once more: a fresh lesson, at once with its question when the
\* passage is read inside the flow.  A lesson in flight would need transcripts.
StartNext(t) ==
  /\ tap[t].at = "chain" /\ (\E row \in Current : row.kind = "answers") /\ At(t, "send")
  /\ \/ \E q \in Unseen : Insert(Asks(q, tap[t].anchor))
     \/ Insert(Reads(tap[t].anchor))
  /\ UNCHANGED <<anchors, undone, shown>>

\* wabot sends the reply on when the window is open still.
SendReply(t) ==
  /\ tap[t].at = "send"
  /\ IF tap[t].window = "open"
     THEN /\ tap' = [tap EXCEPT ![t].at = "done", ![t].window = "answered"]
          /\ shown' = shown \cup {tap[t].anchor}
     ELSE At(t, "undo") /\ UNCHANGED shown
  /\ UNCHANGED <<steps, anchors, undone>>

\* wabot sent the reply on, but the worker never learns of it.
TapResponseLost(t) ==
  /\ tap[t].at = "send" /\ tap[t].window = "open"
  /\ tap' = [tap EXCEPT ![t] = NextTry([@ EXCEPT !.window = "answered"])]
  /\ shown' = shown \cup {tap[t].anchor}
  /\ UNCHANGED <<steps, anchors, undone>>

\* markRolledBack of this attempt's anchor.
UndoTap(t) ==
  /\ tap[t].at = "undo" /\ At(t, "done")
  /\ undone' = undone \cup {tap[t].anchor}
  /\ steps' = {row \in steps : row.by # tap[t].anchor}
  /\ UNCHANGED <<anchors, shown>>

\* An await throws.
TapFails(t) ==
  /\ tap[t].at \in TapActive \ {"drop"}
  /\ tap' = [tap EXCEPT ![t] = NextTry(@)]
  /\ UNCHANGED <<steps, anchors, undone, shown>>

TapStep(t) ==
  \/ InsertAnchor(t) \/ ReadQuestion(t) \/ DropAnchor(t) \/ InsertAnswer(t)
  \/ StartNext(t) \/ SendReply(t) \/ UndoTap(t) \/ TapResponseLost(t)
  \/ TapFails(t)

TapNext == \E t \in Taps : TapArrives(t) \/ TapExpires(t) \/ TapStep(t)
TapSpec == TapInit /\ [][TapNext]_tapVars

-----------------------------------------------------------------------------
AnswerRows == {r \in steps : r.kind = "answers"}

\* However the student taps, late, twice or an old message's button, and wherever
\* attempts fail: the answers they were shown the outcome of are to the questions
\* they chose them for, and there is at most one for each.
ShownAnswersFit ==
  \A r \in AnswerRows : r.by \in shown =>
    /\ r.opt = r.q
    /\ \A s \in AnswerRows : s.by \in shown /\ s.q = r.q => s = r

\* inbound.processor.prompt.md: a retry finds "a clean slate", as the voice path's
\* attempts do: what a job leaves of a tap in the lesson, the student was shown.
TapShownOrUndone ==
  \A t \in Taps : tap[t].at \in {"done", "skipped"} =>
    \A r \in AnswerRows : r.opt = tap[t].q => r.by \in shown
=============================================================================
