----------------------------- MODULE Lan8814TsFifo -----------------------------
(* The transmit time stamp FIFO of one LAN8814 port and its TS interrupts:      *)
(* lan8814_ts.c, mepa_ts_fifo_empty, mepa_ts_fifo_get, mepa_ts_fifo_read_install*)
(* and mepa_ts_event_set/_poll, called by several threads of the application.   *)
(*                                                                              *)
(* What runs between MEPA_ENTER and MEPA_EXIT is one action.  fifo_empty gives  *)
(* the lock up around every call of the application's callback and has read the *)
(* callback before it took the lock, so it is three actions per stamp.          *)

EXTENDS Naturals, Sequences, FiniteSets, SequencesExt

CONSTANTS
    Readers,            \* threads of the application
    Callbacks,          \* the functions it installs
    MaxStamps,          \* bound: frames that are stamped
    FifoDepth,          \* entries of the hardware FIFO
    FIFO_MAX_ENTRIES,   \* MEPA_TS_FIFO_MAX_ENTRIES: entries fifo_get returns
    EventGroups         \* masks the application passes to mepa_ts_event_set

Stamps == 1 .. MaxStamps

\* MEPA_TS_EGR_TIMESTAMP_CAPTURED and MEPA_TS_EGR_FIFO_OVERFLOW, the two events
\* the driver knows.
Events == {"captured", "overflow"}

NoCallback == "NULL"
NoStamp == 0

ASSUME FifoAssumption ==
    /\ IsFiniteSet(Readers)
    /\ MaxStamps \in Nat \ {0}
    /\ FifoDepth \in Nat \ {0}
    /\ FIFO_MAX_ENTRIES \in Nat \ {0}
    /\ EventGroups \subseteq SUBSET Events
    /\ NoCallback \notin Callbacks

VARIABLES
    \* hardware
    fifo,          \* stamps waiting, oldest first
    captured,      \* stamps taken so far: the next one is captured + 1
    lost,          \* stamps that found the FIFO full
    int_sts,       \* LAN8814_PTP_TSU_INT_STS
    int_en,        \* LAN8814_PTP_TSU_INT_EN
    ptp_en,        \* LAN8814_PTP_TSU_GEN_CONF_EN, and the driver's copy of it
    \* driver
    fifo_cb,       \* ts_state.fifo_cb
    event_mask,    \* ts_port_conf.event_mask
    \* threads
    pc,            \* "idle", "event" (saw one), "read" or "callback"
    rd_cb,         \* the local rd_cb of fifo_empty
    ts,            \* the local ts of fifo_empty
    given          \* what the application got: each stamp and the way it came

hw == <<fifo, captured, lost, int_sts>>
conf == <<int_en, ptp_en, fifo_cb, event_mask>>
thread == <<pc, rd_cb, ts, given>>
vars == <<hw, conf, thread>>

\* The state lan8814_ts_init_conf_set leaves: FIFO reset, nothing enabled.
Init ==
    /\ fifo = <<>> /\ captured = 0 /\ lost = {} /\ int_sts = {}
    /\ int_en = {} /\ ptp_en = FALSE
    /\ fifo_cb = NoCallback /\ event_mask = {}
    /\ pc = [r \in Readers |-> "idle"]
    /\ rd_cb = [r \in Readers |-> NoCallback]
    /\ ts = [r \in Readers |-> NoStamp]
    /\ given = <<>>

--------------------------------------------------------------------------------
(* Hardware. *)

\* A frame that must be stamped leaves the port.
Capture ==
    /\ ptp_en
    /\ captured < MaxStamps
    /\ captured' = captured + 1
    /\ IF Len(fifo) < FifoDepth
       THEN /\ fifo' = Append(fifo, captured')
            /\ int_sts' = int_sts \union {"captured"}
            /\ lost' = lost
       ELSE /\ lost' = lost \union {captured'}
            /\ int_sts' = int_sts \union {"overflow"}
            /\ fifo' = fifo
    /\ UNCHANGED <<conf, thread>>

--------------------------------------------------------------------------------
(* Configuration calls. *)

lan8814_ts_mode_set(enable) ==
    /\ ptp_en' = enable
    /\ UNCHANGED <<hw, int_en, fifo_cb, event_mask, thread>>

lan8814_ts_fifo_read_install(cb) ==
    /\ fifo_cb' = cb
    /\ UNCHANGED <<hw, int_en, ptp_en, event_mask, thread>>

\* Mutant: the test for enabling is used for disabling too.
MaskChangedSame(enable, ev_mask) == event_mask \intersect ev_mask = {}

\* Whether the mask counts as changed: enabling looks for no common event, so
\* one that is enabled already hides the others of its group.
MaskChanged(enable, ev_mask) ==
    (event_mask \intersect ev_mask = {}) = enable

lan8814_ts_event_set(enable, ev_mask) ==
    /\ event_mask' = IF enable THEN event_mask \union ev_mask
                               ELSE event_mask \ ev_mask
    /\ int_en' = IF MaskChanged(enable, ev_mask) THEN event_mask' ELSE int_en
    /\ UNCHANGED <<hw, ptp_en, fifo_cb, thread>>

--------------------------------------------------------------------------------
(* The threads of the application. *)

\* lan8814_ts_event_poll: the chip level register shows an enabled event, the
\* status register, cleared by the read, says which.  A thread that is told of
\* a stamp goes on to fetch it.
lan8814_ts_event_poll(r) ==
    /\ pc[r] = "idle"
    /\ int_sts \intersect int_en # {}
    /\ pc' = [pc EXCEPT ![r] =
                IF "captured" \in int_sts \intersect event_mask THEN "event" ELSE @]
    /\ int_sts' = {}
    /\ UNCHANGED <<fifo, captured, lost, conf, rd_cb, ts, given>>

\* lan8814_ts_tx_ts_get up to MEPA_ENTER.  The application has installed a
\* callback; it calls on an event, or because it feels like it.
lan8814_ts_tx_ts_get(r) ==
    /\ pc[r] \in {"idle", "event"}
    /\ fifo_cb # NoCallback
    /\ pc' = [pc EXCEPT ![r] = "read"]
    /\ rd_cb' = [rd_cb EXCEPT ![r] = fifo_cb]
    /\ UNCHANGED <<hw, conf, ts, given>>

\* Mutant: the entry is read but stays in the FIFO.
ReadEntryPeeks(r) ==
    /\ pc[r] = "read"
    /\ fifo # <<>>
    /\ ts' = [ts EXCEPT ![r] = Head(fifo)]
    /\ pc' = [pc EXCEPT ![r] = "callback"]
    /\ UNCHANGED <<hw, conf, rd_cb, given>>

\* Mutant: the call waits for the next stamp instead of returning.
ReadEntryWaits(r) ==
    /\ pc[r] = "read"
    /\ fifo # <<>>
    /\ ts' = [ts EXCEPT ![r] = Head(fifo)]
    /\ fifo' = Tail(fifo)
    /\ pc' = [pc EXCEPT ![r] = "callback"]
    /\ UNCHANGED <<captured, lost, int_sts, conf, rd_cb, given>>

\* Mutant: the callback is forgotten once an entry was read.
ReadEntryForgets(r) ==
    /\ pc[r] = "read"
    /\ fifo # <<>>
    /\ ts' = [ts EXCEPT ![r] = Head(fifo)]
    /\ fifo' = Tail(fifo)
    /\ pc' = [pc EXCEPT ![r] = "callback"]
    /\ rd_cb' = [rd_cb EXCEPT ![r] = NoCallback]
    /\ UNCHANGED <<captured, lost, int_sts, conf, given>>

\* One turn of its loop: an entry is read, which takes it from the FIFO, and
\* the lock given up, or the call returns.
ReadEntry(r) ==
    /\ pc[r] = "read"
    /\ \/ /\ fifo # <<>>
          /\ ts' = [ts EXCEPT ![r] = Head(fifo)]
          /\ fifo' = Tail(fifo)
          /\ pc' = [pc EXCEPT ![r] = "callback"]
          /\ rd_cb' = rd_cb
       \/ /\ fifo = <<>>
          /\ pc' = [pc EXCEPT ![r] = "idle"]
          /\ rd_cb' = [rd_cb EXCEPT ![r] = NoCallback]
          /\ UNCHANGED <<fifo, ts>>
    /\ UNCHANGED <<captured, lost, int_sts, conf, given>>

\* rd_cb(data->port_no, &ts, ...), and the lock is taken again.
Callback(r) ==
    /\ pc[r] = "callback"
    /\ given' = Append(given, [stamp |-> ts[r], to |-> rd_cb[r]])
    /\ ts' = [ts EXCEPT ![r] = NoStamp]
    /\ pc' = [pc EXCEPT ![r] = "read"]
    /\ UNCHANGED <<hw, conf, rd_cb>>

\* Mutant: one entry less than the FIFO can hold.
lan8814_ts_fifo_getShort(r) ==
    /\ pc[r] \in {"idle", "event"}
    /\ LET num == IF Len(fifo) < FIFO_MAX_ENTRIES - 1 THEN Len(fifo)
                  ELSE FIFO_MAX_ENTRIES - 1
       IN  /\ given' = given \o [i \in 1 .. num |-> [stamp |-> fifo[i], to |-> "list"]]
           /\ fifo' = SubSeq(fifo, num + 1, Len(fifo))
    /\ pc' = [pc EXCEPT ![r] = "idle"]
    /\ UNCHANGED <<captured, lost, int_sts, conf, rd_cb, ts>>

\* lan8814_ts_fifo_get with a list that is long enough; a shorter one is
\* refused before anything is read.
lan8814_ts_fifo_get(r) ==
    /\ pc[r] \in {"idle", "event"}
    /\ LET num == IF Len(fifo) < FIFO_MAX_ENTRIES THEN Len(fifo) ELSE FIFO_MAX_ENTRIES
       IN  /\ given' = given \o [i \in 1 .. num |-> [stamp |-> fifo[i], to |-> "list"]]
           /\ fifo' = SubSeq(fifo, num + 1, Len(fifo))
    /\ pc' = [pc EXCEPT ![r] = "idle"]
    /\ UNCHANGED <<captured, lost, int_sts, conf, rd_cb, ts>>

--------------------------------------------------------------------------------

Configure ==
    \/ \E enable \in BOOLEAN : lan8814_ts_mode_set(enable)
    \/ \E cb \in Callbacks : lan8814_ts_fifo_read_install(cb)
    \/ \E enable \in BOOLEAN, ev_mask \in EventGroups :
            lan8814_ts_event_set(enable, ev_mask)

Fetch(r) == lan8814_ts_tx_ts_get(r) \/ lan8814_ts_fifo_get(r)

Next ==
    \/ Capture
    \/ Configure
    \/ \E r \in Readers :
            lan8814_ts_event_poll(r) \/ Fetch(r) \/ ReadEntry(r) \/ Callback(r)

\* An application that is told of a stamp fetches, and threads inside the
\* driver are scheduled; polling is a loop of every thread.
Fairness ==
    \A r \in Readers :
        /\ WF_vars(lan8814_ts_event_poll(r))
        /\ WF_vars(pc[r] = "event" /\ Fetch(r))
        /\ WF_vars(ReadEntry(r))
        /\ WF_vars(Callback(r))

Spec == Init /\ [][Next]_vars /\ Fairness

--------------------------------------------------------------------------------
(* Properties. *)

Held == {s \in Stamps : \E r \in Readers : ts[r] = s}
Given == {given[i].stamp : i \in DOMAIN given}

\* Every variable holds a value of its kind.
TypeOK ==
    /\ fifo \in Seq(Stamps)
    /\ captured \in 0 .. MaxStamps
    /\ lost \subseteq Stamps
    /\ int_sts \subseteq Events /\ int_en \subseteq Events /\ event_mask \subseteq Events
    /\ ptp_en \in BOOLEAN
    /\ fifo_cb \in Callbacks \union {NoCallback}
    /\ pc \in [Readers -> {"idle", "event", "read", "callback"}]
    /\ rd_cb \in [Readers -> Callbacks \union {NoCallback}]
    /\ ts \in [Readers -> Stamps \union {NoStamp}]
    /\ given \in Seq([stamp : Stamps, to : Callbacks \union {"list"}])

\* Every captured stamp is in exactly one place - the FIFO, the hands of one
\* reader between its read and its callback, the application, or lost to an
\* overflow - however the readers interleave while the lock is given up: none
\* is handed out twice and none disappears.
StampsAccounted ==
    /\ Len(fifo) + Cardinality({r \in Readers : ts[r] # NoStamp})
         + Len(given) + Cardinality(lost) = captured
    /\ ToSet(fifo) \union Held \union Given \union lost = 1 .. captured

\* No event that the application withdrew still interrupts, whatever groups it
\* enabled and disabled before: mepa_ts_event_set does not write the register on
\* every call, and each time it does not, the register must hold no more than the
\* mask.  It may hold less: enabling a group of which one event is enabled already
\* does not write the register, and the others are in the mask alone.
NoUnaskedInterrupt == int_en \subseteq event_mask

\* A stamp in the FIFO whose interrupt is pending and enabled reaches the
\* application, or the interrupt is withdrawn, whatever calls other threads make
\* meanwhile: fifo_empty leaves an entry behind only when the interrupt of a
\* later stamp is pending, and fifo_get takes all the FIFO can hold.  That the event
\* is in the mask would not be enough (NoUnaskedInterrupt).
StampReported ==
    \A s \in Stamps :
        (s \in ToSet(fifo) /\ "captured" \in int_sts \intersect int_en)
            ~> (s \in Given \/ "captured" \notin int_en)

\* A callback that was replaced is not used for ever: calls that started
\* before the replacement come to an end.
OldCallbackRetires ==
    \A cb \in Callbacks :
        (fifo_cb # cb) ~> (fifo_cb = cb \/ \A r \in Readers : rd_cb[r] # cb)

\* Seen from outside, the two ways to read the FIFO deliver as TsDelivery says,
\* and never drop a stamp that was captured into it.
Delivery ==
    INSTANCE TsDelivery WITH
        MayDiscard <- FALSE,
        taken <- 1 .. captured,
        waiting <- ToSet(fifo) \union Held,
        out <- [i \in DOMAIN given |-> given[i].stamp]
DeliversOnce == Delivery!Spec

================================================================================
