----------------------------- MODULE KeepAlive -----------------------------
(***************************************************************************)
(* The transmit side of one server connection of timps-oscar: the FLAP     *)
(* sequence numbers, the bounded transmit queue, and the keepalive timer   *)
(* that is to notice a host that no longer takes our data.                 *)
(*                                                                         *)
(* now - lasttx_soft and now - lasttx_hard are kept as ages that stop at   *)
(* MaxAge; a connection starts with both at MaxAge, because                *)
(* naf_conn_addconn sets the two times to 0.  The environment decides when *)
(* packets for the host come in, how fast the host takes them (at least    *)
(* one every FlushDelay while it is alive), and when it stops taking them. *)
(***************************************************************************)
EXTENDS Integers, Sequences

CONSTANTS
    KeepaliveFrequency,  \* timps_oscar__keepalive_frequency
    TxTimeout,           \* timps_oscar__txtimeout
    TimerPeriod,         \* longest time between two runs of timerhandler
    FlushDelay,          \* longest time a live host leaves data queued
    LoginDelay,          \* longest time from a written packet to Host Online
    TxMax,               \* capacity of the transmit queue (nbio_addfd)
    SeqMod               \* sequence numbers are naf_u16_t

MaxAge == TxTimeout + 1

ASSUME TimesAssumption ==
    /\ KeepaliveFrequency \in Nat /\ TxTimeout \in Nat
    /\ TimerPeriod \in Nat /\ FlushDelay \in Nat /\ LoginDelay \in Nat
ASSUME QueueAssumption == TxMax \in Nat \ {0} /\ SeqMod \in Nat \ {0}

VARIABLES
    open,        \* the connection exists
    ready,       \* TOSCAR_FLAG_READY
    closing,     \* nbio_setcloseonflush
    gaveup,      \* history: the timer scheduled the kill
    txq,         \* sequence numbers of the queued packets
    nextseqnum,
    lastsent,    \* history: sequence number of the last packet written
    soft, hard,  \* now - lasttx_soft, now - lasttx_hard
    stuck,       \* the host has stopped taking data
    waiting,     \* time since the host could last have taken a packet
    sincetimer   \* time since the last run of timerhandler

vars == <<open, ready, closing, gaveup, txq, nextseqnum, lastsent, soft, hard,
          stuck, waiting, sincetimer>>

TypeOK ==
    /\ open \in BOOLEAN /\ ready \in BOOLEAN /\ closing \in BOOLEAN
    /\ gaveup \in BOOLEAN /\ stuck \in BOOLEAN
    /\ txq \in Seq(0 .. SeqMod - 1) /\ Len(txq) <= TxMax
    /\ nextseqnum \in 0 .. SeqMod - 1 /\ lastsent \in -1 .. SeqMod - 1
    /\ soft \in 0 .. MaxAge /\ hard \in 0 .. MaxAge
    /\ waiting \in 0 .. FlushDelay /\ sincetimer \in 0 .. TimerPeriod

-----------------------------------------------------------------------------
(* Sending *)

\* Mutation: off by one.
Full_Late == Len(txq) > TxMax

\* nbio_addtxvector refuses a packet when the queue is full.
Full == Len(txq) >= TxMax

\* Mutation: a refused packet uses its number up.
toscar_flap__sendraw_Early ==
    /\ soft' = 0
    /\ txq' = IF Full THEN txq ELSE Append(txq, nextseqnum)
    /\ nextseqnum' = (nextseqnum + 1) % SeqMod
    /\ waiting' = IF txq = <<>> THEN 0 ELSE waiting

\* toscar_flap__sendraw: the time is taken before the queue can refuse, the
\* number is used up only by a packet that was queued.
toscar_flap__sendraw ==
    /\ soft' = 0
    /\ \/ Full /\ UNCHANGED <<txq, nextseqnum>>
       \/ /\ ~Full
          /\ txq' = Append(txq, nextseqnum)
          /\ nextseqnum' = (nextseqnum + 1) % SeqMod
    /\ waiting' = IF txq = <<>> THEN 0 ELSE waiting

\* A packet for the host, read from the client or made by a handler.  If it
\* is refused, the client is freed and its endpoint with it.
Send ==
    /\ open
    /\ toscar_flap__sendraw
    /\ open' = ~Full
    /\ UNCHANGED <<ready, closing, gaveup, lastsent, hard, stuck, sincetimer>>

\* Mutation: lasttx_hard is not updated.
naf_conn_takewrite_NoTime ==
    /\ open /\ ~stuck /\ txq # <<>>
    /\ txq' = Tail(txq)
    /\ lastsent' = Head(txq)
    /\ waiting' = 0
    /\ hard' = IF lastsent = -1 THEN 0 ELSE hard
    /\ UNCHANGED <<open, ready, closing, gaveup, nextseqnum, soft, stuck, sincetimer>>

\* toscar_flap_handlewrite: the first packet has been written.
naf_conn_takewrite ==
    /\ open /\ ~stuck /\ txq # <<>>
    /\ txq' = Tail(txq)
    /\ lastsent' = Head(txq)
    /\ hard' = 0
    /\ waiting' = 0
    /\ UNCHANGED <<open, ready, closing, gaveup, nextseqnum, soft, stuck, sincetimer>>

\* The operator disconnects the user: the queue is still written.
toscar__force_disconnect ==
    /\ open
    /\ closing' = TRUE
    /\ UNCHANGED <<open, ready, gaveup, txq, nextseqnum, lastsent, soft, hard,
                   stuck, waiting, sincetimer>>

\* nbio reports the end of a connection that is closing once nothing is queued.
CloseOnFlush ==
    /\ open /\ closing /\ txq = <<>>
    /\ open' = FALSE
    /\ UNCHANGED <<ready, closing, gaveup, txq, nextseqnum, lastsent, soft, hard,
                   stuck, waiting, sincetimer>>

-----------------------------------------------------------------------------
(* The host *)

\* 0001/0003 Host Online.  A host sends it once it has taken our login
\* packet, at most LoginDelay after the last packet it took.
toscar_snachandler_0001_0003 ==
    /\ open /\ ~ready /\ ~stuck
    /\ lastsent # -1 /\ hard <= LoginDelay
    /\ ready' = TRUE
    /\ UNCHANGED <<open, closing, gaveup, txq, nextseqnum, lastsent, soft, hard,
                   stuck, waiting, sincetimer>>

Stick ==
    /\ open /\ ~stuck
    /\ stuck' = TRUE
    /\ UNCHANGED <<open, ready, closing, gaveup, txq, nextseqnum, lastsent, soft, hard,
                   waiting, sincetimer>>

-----------------------------------------------------------------------------
(* Time *)

\* Mutation: the timeout looks at the time of queueing.
toscar__keepalive_matcher_Soft ==
    IF ready
    THEN /\ \/ soft > KeepaliveFrequency /\ toscar_flap__sendraw
            \/ /\ soft <= KeepaliveFrequency
               /\ UNCHANGED <<soft, txq, nextseqnum, waiting>>
         /\ closing' = (closing \/ soft > TxTimeout)
         /\ gaveup' = (gaveup \/ soft > TxTimeout)
    ELSE UNCHANGED <<closing, gaveup, soft, txq, nextseqnum, waiting>>

\* Whether the nop is queued or refused, the second test follows.
toscar__keepalive_matcher ==
    IF ready
    THEN /\ \/ soft > KeepaliveFrequency /\ toscar_flap__sendraw
            \/ /\ soft <= KeepaliveFrequency
               /\ UNCHANGED <<soft, txq, nextseqnum, waiting>>
         /\ closing' = (closing \/ hard > TxTimeout)
         /\ gaveup' = (gaveup \/ hard > TxTimeout)
    ELSE UNCHANGED <<closing, gaveup, soft, txq, nextseqnum, waiting>>

timerhandler ==
    /\ open
    /\ toscar__keepalive_matcher
    /\ sincetimer' = 0
    /\ UNCHANGED <<open, ready, lastsent, hard, stuck>>

Older(age) == IF age < MaxAge THEN age + 1 ELSE age

\* A unit of time passes: the timer is not overdue, and a live host takes a
\* packet at least every FlushDelay.
Tick ==
    /\ open
    /\ sincetimer < TimerPeriod
    /\ stuck \/ txq = <<>> \/ waiting < FlushDelay
    /\ soft' = Older(soft)
    /\ hard' = Older(hard)
    /\ waiting' = IF stuck \/ txq = <<>> THEN waiting ELSE waiting + 1
    /\ sincetimer' = sincetimer + 1
    /\ UNCHANGED <<open, ready, closing, gaveup, txq, nextseqnum, lastsent, stuck>>

-----------------------------------------------------------------------------
Init ==
    /\ open = TRUE /\ ready = FALSE /\ closing = FALSE /\ gaveup = FALSE
    /\ txq = <<>> /\ nextseqnum = 0 /\ lastsent = -1
    /\ soft = MaxAge /\ hard = MaxAge
    /\ stuck = FALSE /\ waiting = 0 /\ sincetimer = 0

Next ==
    \/ Send
    \/ naf_conn_takewrite
    \/ CloseOnFlush
    \/ toscar__force_disconnect
    \/ toscar_snachandler_0001_0003
    \/ Stick
    \/ timerhandler
    \/ Tick

Spec == Init /\ [][Next]_vars

\* Time passes, the timer runs, and nbio writes and closes when it can.
FairSpec ==
    /\ Spec
    /\ WF_vars(Tick)
    /\ WF_vars(timerhandler)
    /\ WF_vars(naf_conn_takewrite)
    /\ WF_vars(CloseOnFlush)

-----------------------------------------------------------------------------
(* Properties *)

\* "If a host doesn't ack our data ... consider the connection dead":
\* toscar__keepalive_matcher never gives up a host that does take its data.
\* The nops keep lasttx_hard recent on a connection with no traffic.  The
\* settings have to leave room for it, and Host Online must not come late.
LiveHostSpared == gaveup => stuck

\* The host sees consecutive sequence numbers: toscar_flap__sendraw uses a
\* number up only when the packet is queued, also when the queue is full.
Consecutive ==
    LET numbers == (IF lastsent = -1 THEN <<>> ELSE <<lastsent>>) \o txq \o <<nextseqnum>>
    IN  \A i \in 1 .. Len(numbers) - 1 : numbers[i + 1] = (numbers[i] + 1) % SeqMod

\* A stuck host is detected: toscar__keepalive_matcher schedules the kill.
StuckDetected == (open /\ ready /\ stuck) ~> (~open \/ gaveup)

\* "This closes connections that are 'stuck', at the TCP level."
StuckCloses == (open /\ ready /\ stuck) ~> ~open

============================================================================
