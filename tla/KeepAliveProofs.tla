-------------------------- MODULE KeepAliveProofs --------------------------
(***************************************************************************)
(* Which settings let the keepalive timer of timps-oscar spare every host  *)
(* that takes its data in time: the bound is stated by SettingsSuffice and *)
(* LiveHostSpared is proved from it for every choice of the times.         *)
(***************************************************************************)
EXTENDS KeepAlive, TLAPS

SettingsSuffice ==
    /\ KeepaliveFrequency + TimerPeriod + FlushDelay <= TxTimeout
    /\ LoginDelay + TimerPeriod + FlushDelay <= TxTimeout

\* Whatever was written last on an idle ready connection was written this
\* long before the last run of the timer, or before Host Online.
Grace == IF KeepaliveFrequency >= LoginDelay THEN KeepaliveFrequency ELSE LoginDelay

\* The strengthening of LiveHostSpared that every step preserves.
Recent ==
    /\ lastsent # -1 /\ txq = <<>> => hard <= soft
    /\ ready => lastsent # -1
    /\ ready /\ txq = <<>> => hard <= Grace + sincetimer
    /\ ready => hard <= Grace + TimerPeriod + waiting

KInv == TypeOK /\ (gaveup => stuck) /\ (open /\ ~stuck => Recent)

-----------------------------------------------------------------------------
\* What toscar_flap__sendraw does to the queue and the sequence number.
LEMMA SendrawTypes ==
    ASSUME TypeOK, toscar_flap__sendraw
    PROVE  /\ txq' \in Seq(0 .. SeqMod - 1) /\ Len(txq') <= TxMax
           /\ txq' # <<>>
           /\ nextseqnum' \in 0 .. SeqMod - 1
           /\ soft' = 0
           /\ waiting' \in 0 .. FlushDelay
           /\ waiting' = IF txq = <<>> THEN 0 ELSE waiting
  <1> USE QueueAssumption, TimesAssumption DEF TypeOK
  <1>1. CASE Full
    BY <1>1 DEF toscar_flap__sendraw, Full
  <1>2. CASE ~Full
    <2>1. txq' = Append(txq, nextseqnum) /\ nextseqnum' = (nextseqnum + 1) % SeqMod
      BY <1>2 DEF toscar_flap__sendraw
    <2>2. nextseqnum' \in 0 .. SeqMod - 1
      BY <2>1
    <2>3. txq' \in Seq(0 .. SeqMod - 1) /\ Len(txq') = Len(txq) + 1
      BY <2>1
    <2>4. Len(txq') <= TxMax /\ txq' # <<>>
      BY <1>2, <2>3 DEF Full
    <2> QED
      BY <2>2, <2>3, <2>4 DEF toscar_flap__sendraw
  <1> QED
    BY <1>1, <1>2

\* A connection starts with well-typed fields.
LEMMA InitTypes == Init => TypeOK
  <1> SUFFICES ASSUME Init PROVE TypeOK
    OBVIOUS
  <1> USE QueueAssumption, TimesAssumption
  <1>1. txq \in Seq(0 .. SeqMod - 1) /\ Len(txq) <= TxMax
    BY DEF Init
  <1>2. nextseqnum \in 0 .. SeqMod - 1 /\ lastsent \in -1 .. SeqMod - 1
    BY DEF Init
  <1>3. soft \in 0 .. MaxAge /\ hard \in 0 .. MaxAge
    BY DEF Init, MaxAge
  <1>4. waiting \in 0 .. FlushDelay /\ sincetimer \in 0 .. TimerPeriod
    BY DEF Init
  <1>5. /\ open \in BOOLEAN /\ ready \in BOOLEAN /\ closing \in BOOLEAN
        /\ gaveup \in BOOLEAN /\ stuck \in BOOLEAN
    BY DEF Init
  <1> QED
    BY <1>1, <1>2, <1>3, <1>4, <1>5 DEF TypeOK

\* Every step of the connection preserves the types.
LEMMA TypesStep == TypeOK /\ [Next]_vars => TypeOK'
  <1> SUFFICES ASSUME TypeOK, [Next]_vars
               PROVE  TypeOK'
    OBVIOUS
  <1> USE QueueAssumption, TimesAssumption DEF MaxAge
  <1>1. CASE Send
    BY <1>1, SendrawTypes DEF Send, TypeOK
  <1>2. CASE naf_conn_takewrite
    <2>1. /\ Tail(txq) \in Seq(0 .. SeqMod - 1)
          /\ Len(Tail(txq)) = Len(txq) - 1
          /\ Head(txq) \in 0 .. SeqMod - 1
      BY <1>2 DEF naf_conn_takewrite, TypeOK
    <2> QED
      BY <1>2, <2>1 DEF naf_conn_takewrite, TypeOK
  <1>3. CASE timerhandler
    <2>1. CASE ready /\ soft > KeepaliveFrequency
      BY <1>3, <2>1, SendrawTypes
      DEF timerhandler, toscar__keepalive_matcher, TypeOK
    <2>2. CASE ~(ready /\ soft > KeepaliveFrequency)
      BY <1>3, <2>2 DEF timerhandler, toscar__keepalive_matcher, TypeOK
    <2> QED
      BY <2>1, <2>2
  <1>4. CASE Tick
    BY <1>4 DEF Tick, Older, TypeOK
  <1>5. CASE \/ CloseOnFlush \/ toscar__force_disconnect
            \/ toscar_snachandler_0001_0003 \/ Stick \/ UNCHANGED vars
    BY <1>5 DEF CloseOnFlush, toscar__force_disconnect, toscar_snachandler_0001_0003, Stick, TypeOK, vars
  <1> QED
    BY <1>1, <1>2, <1>3, <1>4, <1>5 DEF Next

\* The queue, the sequence numbers and the clocks keep their types.
THEOREM TypeCorrect == Spec => []TypeOK
  BY InitTypes, TypesStep, PTL DEF Spec

-----------------------------------------------------------------------------
\* Every step keeps the last write on a live connection recent.
LEMMA RecentStep ==
    ASSUME SettingsSuffice, KInv, [Next]_vars
    PROVE  KInv'
  <1> USE QueueAssumption, TimesAssumption DEF KInv
  <1>1. TypeOK'
    BY TypesStep
  <1>2. Grace \in Nat /\ Grace + TimerPeriod + FlushDelay <= TxTimeout
    BY DEF Grace, SettingsSuffice
  <1>3. open /\ ready /\ ~stuck => hard <= TxTimeout
    BY <1>2 DEF Recent, TypeOK, MaxAge
  <1>4. gaveup' => stuck'
    <2>1. CASE timerhandler
      <3>1. open /\ stuck' = stuck
        BY <2>1 DEF timerhandler
      <3>2. CASE ready /\ ~stuck
        <4>1. ~(hard > TxTimeout)
          BY <1>3, <3>1, <3>2 DEF TypeOK, MaxAge
        <4>2. gaveup' = (gaveup \/ hard > TxTimeout)
          BY <2>1, <3>2, Zenon DEF timerhandler, toscar__keepalive_matcher
        <4> QED
          BY <3>1, <3>2, <4>1, <4>2, Zenon DEF TypeOK
      <3>3. CASE stuck
        BY <3>1, <3>3, Zenon
      <3>4. CASE ~ready
        <4>1. gaveup' = gaveup
          BY <2>1, <3>4, Zenon DEF timerhandler, toscar__keepalive_matcher
        <4> QED
          BY <3>1, <4>1, Zenon
      <3> QED
        BY <3>2, <3>3, <3>4, Zenon
    <2>2. CASE gaveup' = gaveup /\ (stuck' = stuck \/ stuck' = TRUE)
      BY <2>2 DEF TypeOK
    <2> QED
      BY <2>1, <2>2
      DEF Next, Send, naf_conn_takewrite, toscar__force_disconnect, CloseOnFlush,
          toscar_snachandler_0001_0003, Stick, Tick, vars
  <1> SUFFICES ASSUME open', ~stuck'
               PROVE  Recent'
    BY <1>1, <1>4
  <1>5. CASE Send
    BY <1>2, <1>5, SendrawTypes DEF Send, Recent, TypeOK, MaxAge, Grace
  <1>6. CASE naf_conn_takewrite
    <2>1. hard' = 0 /\ lastsent' # -1 /\ waiting' \in Nat /\ sincetimer' \in Nat
      BY <1>6 DEF naf_conn_takewrite, TypeOK
    <2> QED
      BY <1>1, <1>2, <1>6, <2>1 DEF naf_conn_takewrite, Recent, TypeOK, MaxAge, Grace
  <1>7. CASE timerhandler
    <2>1. open /\ ~stuck /\ Recent
      BY <1>7 DEF timerhandler
    <2>2. CASE ready /\ soft > KeepaliveFrequency
      <3>1. toscar_flap__sendraw
        BY <1>7, <2>2 DEF timerhandler, toscar__keepalive_matcher, TypeOK, MaxAge
      <3>2. ready => hard <= Grace + TimerPeriod + waiting'
        BY <1>2, <2>1, <3>1, SendrawTypes DEF Recent, TypeOK, MaxAge
      <3> QED
        BY <1>7, <2>1, <3>1, <3>2, SendrawTypes DEF timerhandler, Recent, Grace
    <2>3. CASE ready /\ soft <= KeepaliveFrequency
      BY <1>2, <1>7, <2>1, <2>3
      DEF timerhandler, toscar__keepalive_matcher, Recent, TypeOK, MaxAge, Grace
    <2>4. CASE ~ready
      BY <1>2, <1>7, <2>1, <2>4
      DEF timerhandler, toscar__keepalive_matcher, Recent, TypeOK, MaxAge, Grace
    <2> QED
      BY <2>2, <2>3, <2>4 DEF TypeOK, MaxAge
  <1>8. CASE Tick
    BY <1>2, <1>8 DEF Tick, Older, Recent, TypeOK, MaxAge, Grace
  <1>9. CASE toscar_snachandler_0001_0003
    BY <1>2, <1>9 DEF toscar_snachandler_0001_0003, Recent, TypeOK, MaxAge, Grace
  <1>10. CASE CloseOnFlush \/ Stick
    BY <1>10 DEF CloseOnFlush, Stick
  <1>11. CASE toscar__force_disconnect \/ UNCHANGED vars
    <2>1. UNCHANGED <<open, ready, txq, lastsent, soft, hard, stuck, waiting, sincetimer>>
      BY <1>11 DEF toscar__force_disconnect, vars
    <2>2. Recent
      BY <2>1
    <2> QED
      BY <2>1, <2>2 DEF Recent
  <1> QED
    BY <1>5, <1>6, <1>7, <1>8, <1>9, <1>10, <1>11 DEF Next

\* With settings that leave room for the nop and for the host's delay, the
\* timer never schedules the kill of a host that takes its data in time.
THEOREM SettingsSpareLiveHosts ==
    ASSUME SettingsSuffice
    PROVE  Spec => []LiveHostSpared
  <1>1. Init => KInv
    BY InitTypes DEF Init, KInv, Recent
  <1>2. KInv /\ [Next]_vars => KInv'
    BY RecentStep
  <1>3. KInv => LiveHostSpared
    BY DEF KInv, TypeOK, LiveHostSpared
  <1> QED
    BY <1>1, <1>2, <1>3, PTL DEF Spec

-----------------------------------------------------------------------------
(* Sequence numbers *)

Follows(y, x) == y = (x + 1) % SeqMod

\* Consecutive, by the place a number is in: the queued packets among each
\* other, the next packet after the queue, and the queue after the last
\* packet written.
Chain ==
    /\ \A i \in 1 .. Len(txq) - 1 : Follows(txq[i + 1], txq[i])
    /\ txq # <<>> => Follows(nextseqnum, txq[Len(txq)])
    /\ lastsent # -1 => IF txq = <<>> THEN Follows(nextseqnum, lastsent)
                                      ELSE Follows(txq[1], lastsent)

\* Chain is Consecutive.
LEMMA ChainIsConsecutive ==
    ASSUME TypeOK, Chain
    PROVE  Consecutive
  <1> DEFINE pre == IF lastsent = -1 THEN <<>> ELSE <<lastsent>>
             numbers == pre \o txq \o <<nextseqnum>>
             n == Len(txq)
             k == Len(pre)
  <1>1. /\ txq \in Seq(Int) /\ nextseqnum \in Int /\ lastsent \in Int
        /\ n \in Nat /\ (n = 0 <=> txq = <<>>)
    BY QueueAssumption DEF TypeOK
  <1>2. /\ pre \in Seq(Int)
        /\ lastsent = -1 => k = 0
        /\ lastsent # -1 => k = 1 /\ pre[1] = lastsent
    BY <1>1
  <1> HIDE DEF pre
  <1>3. /\ pre \o txq \in Seq(Int)
        /\ Len(pre \o txq) = k + n
        /\ \A i \in 1 .. k + n : (pre \o txq)[i] = IF i <= k THEN pre[i] ELSE txq[i - k]
    BY <1>1, <1>2
  <1>4. /\ Len(numbers) = k + n + 1
        /\ \A i \in 1 .. k + n : numbers[i] = IF i <= k THEN pre[i] ELSE txq[i - k]
        /\ numbers[k + n + 1] = nextseqnum
    BY <1>1, <1>2, <1>3
  <1> HIDE DEF numbers, k, n
  <1>5. ASSUME NEW i \in 1 .. Len(numbers) - 1
        PROVE  Follows(numbers[i + 1], numbers[i])
    <2>1. i \in Int /\ 1 <= i /\ i <= k + n /\ (k = 0 \/ k = 1)
      BY <1>1, <1>2, <1>4
    <2>2. CASE i <= k
      <3>1. i = 1 /\ k = 1
        BY <2>1, <2>2
      <3>2. lastsent # -1 /\ numbers[1] = lastsent
        BY <1>1, <1>2, <1>4, <3>1
      <3>3. CASE txq = <<>>
        BY <1>1, <1>4, <3>1, <3>2, <3>3 DEF Chain
      <3>4. CASE txq # <<>>
        <4>1. numbers[2] = txq[1]
          BY <1>1, <1>4, <3>1, <3>4
        <4> QED
          BY <3>1, <3>2, <3>4, <4>1 DEF Chain
      <3> QED
        BY <3>3, <3>4
    <2>3. CASE i > k /\ i < k + n
      <3>1. ASSUME NEW x \in Int, k < x, x <= k + n
            PROVE  numbers[x] = txq[x - k]
        BY <1>1, <1>4, <2>1, <3>1
      <3>2. numbers[i] = txq[i - k]
        BY <2>1, <2>3, <3>1
      <3>3. numbers[i + 1] = txq[(i + 1) - k]
        <4>1. i + 1 \in Int /\ k < i + 1 /\ i + 1 <= k + n
          BY <1>1, <2>1, <2>3
        <4> QED
          BY <3>1, <4>1, Zenon
      <3>4. k \in Int /\ n \in Int
        BY <1>1, <2>1
      <3>5. i - k \in 1 .. n - 1 /\ (i + 1) - k = (i - k) + 1
        BY <2>1, <2>3, <3>4
      <3> QED
        BY <3>2, <3>3, <3>5 DEF Chain, n
    <2>4. CASE i > k /\ i = k + n
      <3>1. n > 0 /\ numbers[i] = txq[n] /\ numbers[i + 1] = nextseqnum /\ txq # <<>>
        BY <1>1, <1>4, <2>1, <2>4
      <3> QED
        BY <3>1 DEF Chain, n
    <2> QED
      BY <1>1, <2>1, <2>2, <2>3, <2>4
  <1> QED
    BY <1>5 DEF Consecutive, Follows, numbers, pre

\* toscar_flap__sendraw queues the next number or none.
LEMMA SendrawChain ==
    ASSUME TypeOK, Chain, toscar_flap__sendraw, lastsent' = lastsent
    PROVE  Chain'
  <1>1. CASE txq' = txq /\ nextseqnum' = nextseqnum
    BY <1>1 DEF Chain
  <1>2. CASE txq' = Append(txq, nextseqnum) /\ nextseqnum' = (nextseqnum + 1) % SeqMod
    <2> DEFINE n == Len(txq)
    <2>1. txq \in Seq(0 .. SeqMod - 1) /\ n \in Nat /\ (n = 0 <=> txq = <<>>)
      BY DEF TypeOK
    <2>2. /\ Len(txq') = n + 1 /\ txq' # <<>>
          /\ \A i \in 1 .. n : txq'[i] = txq[i]
          /\ txq'[n + 1] = nextseqnum
      BY <1>2, <2>1
    <2>3. Follows(nextseqnum', txq'[Len(txq')])
      BY <1>2, <2>2 DEF Follows
    <2>4. ASSUME NEW i \in 1 .. Len(txq') - 1
          PROVE  Follows(txq'[i + 1], txq'[i])
      <3>1. CASE i < n
        BY <2>1, <2>2, <3>1 DEF Chain
      <3>2. CASE i = n
        BY <2>1, <2>2, <3>2 DEF Chain
      <3> QED
        BY <2>1, <2>2, <3>1, <3>2
    <2>5. lastsent' # -1 => Follows(txq'[1], lastsent')
      BY <2>1, <2>2 DEF Chain
    <2> QED
      BY <2>2, <2>3, <2>4, <2>5 DEF Chain
  <1> QED
    BY <1>1, <1>2 DEF toscar_flap__sendraw

\* Every step keeps the chain.
LEMMA ChainStep ==
    ASSUME TypeOK, Chain, [Next]_vars
    PROVE  Chain'
  <1>1. CASE UNCHANGED <<txq, nextseqnum, lastsent>>
    BY <1>1 DEF Chain
  <1>2. CASE Send
    BY <1>2, SendrawChain DEF Send
  <1>3. CASE timerhandler
    BY <1>1, <1>3, SendrawChain DEF timerhandler, toscar__keepalive_matcher
  <1>4. CASE naf_conn_takewrite
    <2> DEFINE n == Len(txq)
    <2>1. /\ txq \in Seq(0 .. SeqMod - 1) /\ n \in Nat /\ n > 0 /\ txq # <<>>
          /\ txq' = Tail(txq) /\ lastsent' = txq[1] /\ nextseqnum' = nextseqnum
      BY <1>4 DEF naf_conn_takewrite, TypeOK
    <2>2. /\ Len(txq') = n - 1
          /\ \A i \in 1 .. n - 1 : txq'[i] = txq[i + 1]
          /\ txq' \in Seq(0 .. SeqMod - 1)
      BY <2>1
    <2>3. txq' = <<>> <=> n = 1
      BY <2>1, <2>2
    <2>4. ASSUME NEW i \in 1 .. Len(txq') - 1
          PROVE  Follows(txq'[i + 1], txq'[i])
      BY <2>1, <2>2 DEF Chain
    <2>5. txq' # <<>> => Follows(nextseqnum', txq'[Len(txq')])
      BY <2>1, <2>2, <2>3 DEF Chain
    <2>6. IF txq' = <<>> THEN Follows(nextseqnum', lastsent')
                         ELSE Follows(txq'[1], lastsent')
      BY <2>1, <2>2, <2>3 DEF Chain
    <2> QED
      BY <2>4, <2>5, <2>6 DEF Chain
  <1> QED
    BY <1>1, <1>2, <1>3, <1>4 DEF Next, toscar__force_disconnect, CloseOnFlush,
       toscar_snachandler_0001_0003, Stick, Tick, vars

\* The packets written, the packets queued and the next one carry consecutive
\* sequence numbers, whatever the capacity of the queue and the width of the
\* numbers, also when the queue refuses a packet.
THEOREM NumbersConsecutive == Spec => []Consecutive
  <1>1. Init => Chain
    BY DEF Init, Chain
  <1>2. TypeOK /\ Chain /\ [Next]_vars => Chain'
    BY ChainStep
  <1>3. TypeOK /\ Chain => Consecutive
    BY ChainIsConsecutive
  <1> QED
    BY <1>1, <1>2, <1>3, TypeCorrect, PTL DEF Spec

============================================================================
