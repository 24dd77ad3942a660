----------------------------- MODULE MorningUpdate -----------------------------
(***************************************************************************)
(* The jobs that send one parent the report card of the day: each looks for *)
(* today's rendered card among the media rows, renders it if there is none, *)
(* throws to be run again while the card is on its way to WhatsApp, and     *)
(* sends it.  Composed with the media rows and the workers that carry them. *)
(***************************************************************************)
EXTENDS MediaLibrary

CONSTANTS Senders,  \* jobs of one parent and day: the cron's and the trigger's
          Sends     \* attempts of a send job

ASSUME MorningAssumption ==
  Senders \subseteq Makers /\ IsFiniteSet(Senders) /\ Sends \in Nat \ {0}

VARIABLE send  \* what a send job is at, its attempt and the card it sends

allvars == <<vars, send>>

SendInit == send = [p \in Senders |-> [at |-> "wait", try |-> 1, row |-> Null]]

\* The next attempt, or none.
Requeued(p) ==
  send' = [send EXCEPT ![p] =
             IF send[p].try >= Sends THEN [@ EXCEPT !.at = "done"]
             ELSE [@ EXCEPT !.at = "wait", !.try = send[p].try + 1]]
SendAt(p, at, r) == send' = [send EXCEPT ![p].at = at, ![p].row = r]

ExistingReady == {r \in Cards : ~rows[r].rolled /\ rows[r].status = "ready"}
\* findExistingForUser: the newest card of the day that is not rolled back.
Existing ==
  LET live == {r \in Cards : ~rows[r].rolled}
  IN {r \in live : \A o \in live : rows[o].born <= rows[r].born}

\* There is no card of the day yet: the job goes on to render one.
FindNone(p) ==
  send[p].at = "wait" /\ Existing = {} /\ SendAt(p, "none", Null) /\ UNCHANGED vars

\* The card is rendered and its row inserted, or either throws; another job may
\* have inserted one in the meantime.
RenderCard(p) ==
  /\ send[p].at = "none"
  /\ \/ \E r \in Rows :
          kind[r] = "report" /\ InsertRow(p, r) /\ SendAt(p, "render", r)
     \/ Requeued(p) /\ UNCHANGED vars

\* createRenderedImageMedia returned or threw: both run the job again.
Rendered(p) ==
  /\ send[p].at = "render" /\ make[p].at \in {"done", "thrown"}
  /\ make' = [make EXCEPT ![p] = Idle] /\ Requeued(p)
  /\ UNCHANGED <<kind, rows, bucket, jobs, reading, dash>>

\* A failed card ends the job; one that is unfinished, or has no copy with WhatsApp,
\* runs it again.
Look(p) ==
  /\ send[p].at = "wait"
  /\ \E r \in Existing :
       \/ rows[r].status = "failed" /\ SendAt(p, "done", Null)
       \/ rows[r].status = "ready" /\ rows[r].url /\ SendAt(p, "send", r)
       \/ rows[r].status # "failed" /\ (rows[r].status = "ready" => ~rows[r].url) /\ Requeued(p)
  /\ UNCHANGED vars

\* sendNotification: delivered or outside of the 24 hours' window, which ends the
\* job, or not delivered, rate limited or thrown.
Send(p) ==
  /\ send[p].at = "send"
  /\ \/ SendAt(p, "done", send[p].row)
     \/ Requeued(p)
  /\ UNCHANGED vars

SendStep(p) == FindNone(p) \/ RenderCard(p) \/ Rendered(p) \/ Look(p) \/ Send(p)

MorningInit == Init /\ SendInit
MorningNext ==
  \/ Next /\ UNCHANGED send
  \/ \E p \in Senders : SendStep(p)
MorningSpec ==
  /\ MorningInit /\ [][MorningNext]_allvars /\ Fairness
  /\ \A p \in Senders : WF_allvars(SendStep(p))

-----------------------------------------------------------------------------
\* A job that is run again takes up the card it rendered: one job renders one card,
\* two at most one each, unless a card was rolled back.
OneCardPerJob ==
  Cardinality({r \in Cards : ~rows[r].rolled /\ rows[r].status # "failed"})
     <= Cardinality(Senders)

=============================================================================
