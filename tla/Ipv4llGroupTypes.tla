-------------------------- MODULE Ipv4llGroupTypes --------------------------
(* What the wire, the sockets, the timers and the functions of the daemon  *)
(* do, as facts that the other proofs cite, and type correctness, for any  *)
(* number of units, groups and addresses and for any timing constants,     *)
(* whatever fails.                                                         *)
EXTENDS Ipv4llGroup, TLAPS

-----------------------------------------------------------------------------
(* Queues as the sets of their frames.                                     *)

(* A frame appended to a socket queue is added to the frames of the queue. *)
LEMMA RangeAppend ==
  ASSUME NEW s \in Seq(Frame), NEW f \in Frame
  PROVE  /\ Append(s, f) \in Seq(Frame)
         /\ Range(Append(s, f)) = Range(s) \cup {f}
  <1>1. /\ Append(s, f) \in Seq(Frame)
        /\ Len(Append(s, f)) = Len(s) + 1
        /\ \A i \in 1 .. Len(s) : Append(s, f)[i] = s[i]
        /\ Append(s, f)[Len(s) + 1] = f
    OBVIOUS
  <1>2. /\ Len(s) \in Nat /\ DOMAIN s = 1 .. Len(s)
        /\ DOMAIN Append(s, f) = 1 .. Len(s) + 1
    BY <1>1
  <1>3. ASSUME NEW i \in 1 .. Len(s) + 1
        PROVE  Append(s, f)[i] \in Range(s) \cup {f}
    <2>1. i \in 1 .. Len(s) \/ i = Len(s) + 1
      BY <1>2
    <2> QED
      BY <1>1, <1>2, <2>1 DEF Range
  <1>4. ASSUME NEW i \in 1 .. Len(s)
        PROVE  s[i] \in Range(Append(s, f))
    <2>1. i \in 1 .. Len(s) + 1 /\ Append(s, f)[i] = s[i]
      BY <1>1, <1>2
    <2> QED
      BY <1>2, <2>1 DEF Range
  <1>5. f \in Range(Append(s, f))
    <2>1. Len(s) + 1 \in 1 .. Len(s) + 1
      BY <1>2
    <2> QED
      BY <1>1, <1>2, <2>1 DEF Range
  <1> QED
    BY <1>1, <1>2, <1>3, <1>4, <1>5 DEF Range

(* n equal answers add their frame to the frames of a queue, if n is not 0. *)
LEMMA RangeReplies ==
  ASSUME NEW s \in Seq(Frame), NEW f \in Frame, NEW n \in Nat
  PROVE  /\ s \o [i \in 1..n |-> f] \in Seq(Frame)
         /\ Range(s \o [i \in 1..n |-> f])
              = Range(s) \cup (IF n = 0 THEN {} ELSE {f})
  <1> DEFINE t == [i \in 1..n |-> f]
  <1>1. t \in Seq(Frame) /\ Len(t) = n /\ \A i \in 1..n : t[i] = f
    OBVIOUS
  <1> HIDE DEF t
  <1>2. /\ s \o t \in Seq(Frame)
        /\ DOMAIN (s \o t) = 1 .. Len(s) + n
        /\ \A i \in 1 .. Len(s) + n :
             (s \o t)[i] = IF i <= Len(s) THEN s[i] ELSE t[i - Len(s)]
    <2>1. /\ s \o t \in Seq(Frame) /\ Len(s \o t) = Len(s) + Len(t)
          /\ \A i \in 1 .. Len(s) + Len(t) :
               (s \o t)[i] = IF i <= Len(s) THEN s[i] ELSE t[i - Len(s)]
      BY <1>1
    <2>2. DOMAIN (s \o t) = 1 .. Len(s \o t)
      BY <2>1
    <2> QED
      BY <1>1, <2>1, <2>2, Zenon
  <1>3. Len(s) \in Nat /\ DOMAIN s = 1 .. Len(s)
    OBVIOUS
  <1>4. ASSUME NEW x \in Range(s \o t)
        PROVE  x \in Range(s) \cup (IF n = 0 THEN {} ELSE {f})
    <2>1. PICK i \in 1 .. Len(s) + n : x = (s \o t)[i]
      BY <1>2 DEF Range
    <2>2. CASE i <= Len(s)
      BY <1>2, <1>3, <2>1, <2>2 DEF Range
    <2>3. CASE ~(i <= Len(s))
      <3>1. i - Len(s) \in 1..n
        BY <1>3, <2>3
      <3> QED
        BY <1>1, <1>2, <2>1, <2>3, <3>1
    <2> QED
      BY <2>2, <2>3
  <1>5. Range(s) \subseteq Range(s \o t)
    <2> SUFFICES ASSUME NEW i \in 1 .. Len(s)
                 PROVE  s[i] \in Range(s \o t)
      BY <1>3 DEF Range
    <2>1. i \in 1 .. Len(s) + n /\ (s \o t)[i] = s[i]
      BY <1>2, <1>3
    <2> QED
      BY <1>2, <2>1 DEF Range
  <1>6. n # 0 => f \in Range(s \o t)
    <2> SUFFICES ASSUME n # 0
                 PROVE  f \in Range(s \o t)
      OBVIOUS
    <2>1. /\ Len(s) + 1 \in 1 .. Len(s) + n
          /\ (s \o t)[Len(s) + 1] = t[1]
      BY <1>2, <1>3
    <2> QED
      BY <1>1, <1>2, <2>1 DEF Range
  <1> QED
    BY <1>2, <1>4, <1>5, <1>6, Zenon DEF t

(* Reading a frame leaves the others in the queue. *)
LEMMA RangeTail ==
  ASSUME NEW s \in Seq(Frame), s # <<>>
  PROVE  /\ Head(s) \in Frame /\ Tail(s) \in Seq(Frame)
         /\ Range(s) = {Head(s)} \cup Range(Tail(s))
  <1>1. /\ Head(s) \in Frame /\ Tail(s) \in Seq(Frame)
        /\ Len(Tail(s)) = Len(s) - 1
        /\ \A i \in 1 .. Len(Tail(s)) : Tail(s)[i] = s[i + 1]
    OBVIOUS
  <1>2. /\ Len(s) \in Nat \ {0} /\ DOMAIN s = 1 .. Len(s) /\ Head(s) = s[1]
        /\ DOMAIN Tail(s) = 1 .. Len(s) - 1
    BY <1>1
  <1>3. ASSUME NEW i \in 1 .. Len(s)
        PROVE  s[i] \in {Head(s)} \cup Range(Tail(s))
    <2>1. CASE i = 1
      BY <1>2, <2>1
    <2>2. CASE i # 1
      <3>1. i - 1 \in 1 .. Len(s) - 1 /\ s[i] = Tail(s)[i - 1]
        BY <1>1, <1>2, <2>2
      <3> QED
        BY <1>2, <3>1, Zenon DEF Range
    <2> QED
      BY <2>1, <2>2
  <1>4. ASSUME NEW i \in 1 .. Len(s) - 1
        PROVE  Tail(s)[i] \in Range(s)
    <2>1. i + 1 \in 1 .. Len(s) /\ Tail(s)[i] = s[i + 1]
      BY <1>1, <1>2
    <2> QED
      BY <1>2, <2>1 DEF Range
  <1>5. s[1] \in Range(s)
    BY <1>2 DEF Range
  <1> QED
    BY <1>1, <1>2, <1>3, <1>4, <1>5 DEF Range

-----------------------------------------------------------------------------
(* What sending a frame does to the queues.                                *)

Reply(f) == [kind |-> "claim", addr |-> f.addr]

Sent(q, h, f) ==
  /\ rx' \in [Host -> Seq(Frame)]
  /\ \A k \in Host \ {h} :
       Range(rx'[k]) = Range(q[k]) \cup
         (IF link[h] /\ link[k] /\ fd[k] /\ Accepts(filter[k], f)
          THEN {f} ELSE {})
  /\ Range(q[h]) \subseteq Range(rx'[h])
  /\ Range(rx'[h]) \subseteq
       Range(q[h]) \cup (IF Owners(h, f.addr) = {} THEN {} ELSE {Reply(f)})
  /\ f.kind = "probe" /\ Owners(h, f.addr) # {} /\ f.addr \in filter'[h]
       => Reply(f) \in Range(rx'[h])

(* The number of answering kernels is 0 only if nobody has the address. *)
LEMMA AnswersCount ==
  ASSUME NEW h \in Host, NEW f \in Frame, NEW n \in Answers(h, f)
  PROVE  /\ n \in Nat
         /\ Owners(h, f.addr) = {} => n = 0
         /\ f.kind = "probe" /\ Owners(h, f.addr) # {} => n # 0
  <1>1. n \in Nat
    BY DEF Answers
  <1>2. PICK s \in [1..n -> Owners(h, f.addr)] :
          f.kind = "probe" => Range(s) = Owners(h, f.addr)
    BY DEF Answers
  <1>3. n # 0 => s[1] \in Owners(h, f.addr)
    BY <1>1, <1>2
  <1>4. n = 0 => Range(s) = {}
    BY <1>2 DEF Range
  <1> QED
    BY <1>1, <1>2, <1>3, <1>4

(* arp_request adds the frame to the queues of the units that listen, and  *)
(* the answers of the owners to the sender's queue.                        *)
LEMMA RequestSent ==
  ASSUME NEW q \in [Host -> Seq(Frame)], NEW h \in Host, NEW f \in Frame,
         arp_request(q, h, f)
  PROVE  Sent(q, h, f)
  <1>1. PICK n \in Answers(h, f) : rx' = Deliver(q, h, f, n)
    BY DEF arp_request
  <1>2. /\ n \in Nat
        /\ Owners(h, f.addr) = {} => n = 0
        /\ f.kind = "probe" /\ Owners(h, f.addr) # {} => n # 0
    BY AnswersCount, Zenon
  <1>3. Reply(f) \in Frame
    BY DEF Reply, Frame
  <1> DEFINE answered == q[h] \o [i \in 1..n |-> Reply(f)]
  <1>4. /\ answered \in Seq(Frame)
        /\ Range(answered) = Range(q[h]) \cup (IF n = 0 THEN {} ELSE {Reply(f)})
    BY <1>2, <1>3, RangeReplies
  <1>5. /\ DOMAIN rx' = Host
        /\ rx'[h] = IF Accepts(filter'[h], Reply(f)) THEN answered ELSE q[h]
    BY <1>1 DEF Deliver, Reply
  <1> HIDE DEF answered
  <1>6. ASSUME NEW k \in Host \ {h}
        PROVE  /\ rx'[k] \in Seq(Frame)
               /\ Range(rx'[k]) = Range(q[k]) \cup
                    (IF link[h] /\ link[k] /\ fd[k] /\ Accepts(filter[k], f)
                     THEN {f} ELSE {})
    <2>1. rx'[k] = IF link[h] /\ link[k] /\ fd[k] /\ Accepts(filter[k], f)
                   THEN Append(q[k], f) ELSE q[k]
      BY <1>1 DEF Deliver
    <2>2. q[k] \in Seq(Frame)
      OBVIOUS
    <2> QED
      BY <2>1, <2>2, RangeAppend
  <1>7. rx' = [k \in Host |-> rx'[k]]
    BY <1>1 DEF Deliver
  <1>8. rx' \in [Host -> Seq(Frame)]
    BY <1>4, <1>5, <1>6, <1>7
  <1>9. f.addr \in filter'[h] => Accepts(filter'[h], Reply(f))
    BY DEF Accepts, Reply
  <1> QED
    BY <1>2, <1>4, <1>5, <1>6, <1>8, <1>9 DEF Sent

(* TryRequest sends, or changes nothing. *)
LEMMA TryRequestSent ==
  ASSUME NEW q \in [Host -> Seq(Frame)], NEW h \in Host, NEW f \in Frame,
         TryRequest(q, h, f)
  PROVE  /\ Sent(q, h, f) \/ rx' = q
         /\ fd'[h] /\ "send" \notin Faults => Sent(q, h, f)
         /\ rx' \in [Host -> Seq(Frame)]
  <1>1. PICK sent \in Outcome("send") :
          IF fd'[h] /\ sent THEN arp_request(q, h, f) ELSE rx' = q
    BY DEF TryRequest
  <1>2. "send" \notin Faults => sent = TRUE
    BY DEF Outcome
  <1> QED
    BY <1>1, <1>2, RequestSent, Zenon DEF Sent

-----------------------------------------------------------------------------
(* Types.                                                                  *)

LEMMA GroupType == Group \subseteq Nat /\ NGroups \in Group /\ Running \in Nat
  BY SetAssumption DEF Group, Running

(* The timeouts, and the counts of probes, of all arp states but one are   *)
(* as before.                                                              *)
OthersKept(h, g) ==
  \A k \in Host, i \in Group : k # h \/ i # g =>
    cb'[k][i] = cb[k][i] /\ left'[k][i] = left[k][i]

ProbesKept(h, g) ==
  \A k \in Host, i \in Group : k # h \/ i # g =>
    probes'[k][i] = probes[k][i]

(* Setting the timeout of one arp state leaves the others alone. *)
LEMMA SetTimerFacts ==
  ASSUME TypeOK, NEW h \in Host, NEW g \in Group,
         NEW f \in Callback, NEW D \in SUBSET Nat, SetTimer(h, g, f, D)
  PROVE  /\ cb' \in [Host -> [Group -> Callback]]
         /\ left' \in [Host -> [Group -> Nat]]
         /\ cb'[h][g] = f /\ left'[h][g] \in D
         /\ OthersKept(h, g)
  <1>1. PICK d \in D : left' = [left EXCEPT ![h][g] = d]
    BY Zenon DEF SetTimer
  <1>2. d \in Nat /\ left \in [Host -> [Group -> Nat]]
    BY DEF TypeOK
  <1>3. /\ left' \in [Host -> [Group -> Nat]] /\ left'[h][g] = d
        /\ \A k \in Host, i \in Group : k # h \/ i # g =>
             left'[k][i] = left[k][i]
    BY <1>1, <1>2
  <1>4. /\ cb' \in [Host -> [Group -> Callback]] /\ cb'[h][g] = f
        /\ \A k \in Host, i \in Group : k # h \/ i # g =>
             cb'[k][i] = cb[k][i]
    BY DEF SetTimer, TypeOK
  <1> QED
    BY <1>3, <1>4 DEF OthersKept

(* arp_probe1 leaves the group probing, with a probe sent. *)
LEMMA Probe1Facts ==
  ASSUME TypeOK, NEW h \in Host, NEW g \in Group, NEW n \in Nat,
         n < PROBE_NUM, claim'[h][g] \in Addr, arp_probe1(h, g, n)
  PROVE  /\ probes' \in [Host -> [Group -> 0..PROBE_NUM]]
         /\ cb' \in [Host -> [Group -> Callback]]
         /\ left' \in [Host -> [Group -> Nat]]
         /\ rx' \in [Host -> Seq(Frame)]
         /\ cb'[h][g] \in {"arp_probe1", "arp_probed"}
         /\ cb'[h][g] = "arp_probe1" => probes'[h][g] < PROBE_NUM
         /\ cb'[h][g] = "arp_probed" => left'[h][g] = ANNOUNCE_WAIT
         /\ OthersKept(h, g) /\ ProbesKept(h, g)
         /\ TryRequest(rx, h, [kind |-> "probe", addr |-> claim'[h][g]])
  <1> DEFINE f == [kind |-> "probe", addr |-> claim'[h][g]]
  <1>1. f \in Frame
    BY DEF Frame
  <1>2. rx' \in [Host -> Seq(Frame)]
    BY <1>1, TryRequestSent, Zenon DEF TypeOK, arp_probe1
  <1>3. /\ probes' \in [Host -> [Group -> 0..PROBE_NUM]]
        /\ probes'[h][g] = n + 1
        /\ ProbesKept(h, g)
    <2>1. /\ probes \in [Host -> [Group -> 0..PROBE_NUM]]
          /\ probes' = [probes EXCEPT ![h][g] = n + 1]
      BY Zenon DEF TypeOK, arp_probe1
    <2> QED
      BY <2>1, TimeAssumption, SMTT(30) DEF ProbesKept
  <1>4. CASE n + 1 < PROBE_NUM
    <2> DEFINE D == PROBE_MIN..PROBE_MAX
    <2>1. SetTimer(h, g, "arp_probe1", D)
      BY <1>4 DEF arp_probe1
    <2>2. D \in SUBSET Nat /\ "arp_probe1" \in Callback
      BY TimeAssumption DEF Callback
    <2> HIDE DEF D
    <2> QED
      BY <1>2, <1>3, <1>4, <2>1, <2>2, SetTimerFacts DEF arp_probe1
  <1>5. CASE ~(n + 1 < PROBE_NUM)
    <2>1. SetTimer(h, g, "arp_probed", {ANNOUNCE_WAIT})
      BY <1>5 DEF arp_probe1
    <2>2. {ANNOUNCE_WAIT} \in SUBSET Nat /\ "arp_probed" \in Callback
      BY TimeAssumption DEF Callback
    <2> QED
      BY <1>2, <1>3, <2>1, <2>2, SetTimerFacts DEF arp_probe1
  <1> QED
    BY <1>4, <1>5

(* A timeout is removed. *)
LEMMA NoTimerFacts ==
  ASSUME TypeOK, NEW h \in Host, NEW g \in Group, NoTimer(h, g)
  PROVE  /\ cb' \in [Host -> [Group -> Callback]]
         /\ left' \in [Host -> [Group -> Nat]]
         /\ cb'[h][g] = "none"
         /\ OthersKept(h, g)
  <1>1. {0} \in SUBSET Nat /\ "none" \in Callback
    BY DEF Callback
  <1> QED
    BY <1>1, SetTimerFacts DEF NoTimer

(* arp_announce1 leaves the group announcing. *)
LEMMA Announce1Facts ==
  ASSUME TypeOK, NEW h \in Host, NEW g \in Group,
         claim'[h][g] \in Addr, arp_announce1(h, g)
  PROVE  /\ cb' \in [Host -> [Group -> Callback]]
         /\ left' \in [Host -> [Group -> Nat]]
         /\ rx' \in [Host -> Seq(Frame)]
         /\ cb'[h][g] = "arp_announce1"
         /\ OthersKept(h, g)
         /\ TryRequest(rx, h, [kind |-> "claim", addr |-> claim'[h][g]])
  <1> DEFINE f == [kind |-> "claim", addr |-> claim'[h][g]]
             D == ANNOUNCE_ALWAYS_WAIT ..
                    (ANNOUNCE_ALWAYS_WAIT + ANNOUNCE_ALWAYS_WAIT_SPREAD - 1)
  <1>1. f \in Frame
    BY DEF Frame
  <1>2. rx' \in [Host -> Seq(Frame)]
    BY <1>1, TryRequestSent, Zenon DEF TypeOK, arp_announce1
  <1>3. SetTimer(h, g, "arp_announce1", D)
    BY DEF arp_announce1
  <1>4. D \in SUBSET Nat /\ "arp_announce1" \in Callback
    BY TimeAssumption DEF Callback
  <1> HIDE DEF D
  <1> QED
    BY <1>2, <1>3, <1>4, SetTimerFacts DEF arp_announce1

(* The addresses of the filter are addresses of arp states. *)
LEMMA FilterType ==
  ASSUME NEW c \in [Group -> OptAddr], NEW states \in Group
  PROVE  /\ bpf_arp(c, states) \subseteq OptAddr
         /\ NGroups <= ARP_ADDRS_MAX =>
              \A i \in Group : i <= states => c[i] \in bpf_arp(c, states)
  BY SetAssumption, TimeAssumption, SMTT(30) DEF bpf_arp, Group

(* The socket of h is open, the other sockets are as before. *)
SocketOf(h) ==
  /\ fd' \in [Host -> BOOLEAN] /\ filter' \in [Host -> SUBSET OptAddr]
  /\ \A k \in Host \ {h} : fd'[k] = fd[k] /\ filter'[k] = filter[k]

(* arp_probe opens the socket, filters for the claims and probes, or fails *)
(* to open the socket and leaves the group without a timeout.              *)
LEMMA ProbeFacts ==
  ASSUME TypeOK, NEW h \in Host, NEW g \in Group, NEW states \in Group,
         claim' \in [Host -> [Group -> OptAddr]], claim'[h][g] \in Addr,
         arp_probe(h, g, states)
  PROVE  /\ probes' \in [Host -> [Group -> 0..PROBE_NUM]]
         /\ cb' \in [Host -> [Group -> Callback]]
         /\ left' \in [Host -> [Group -> Nat]]
         /\ rx' \in [Host -> Seq(Frame)]
         /\ SocketOf(h) /\ OthersKept(h, g) /\ ProbesKept(h, g)
         /\ \/ /\ fd'[h] /\ filter'[h] = bpf_arp(claim'[h], states)
               /\ cb'[h][g] \in {"arp_probe1", "arp_probed"}
               /\ cb'[h][g] = "arp_probe1" => probes'[h][g] < PROBE_NUM
               /\ cb'[h][g] = "arp_probed" => left'[h][g] = ANNOUNCE_WAIT
               /\ TryRequest(rx, h, [kind |-> "probe", addr |-> claim'[h][g]])
            \/ cb'[h][g] = "none" /\ ~fd[h] /\ UNCHANGED <<fd, filter, rx>>
  <1>1. PICK open \in Outcome("open") :
          IF fd[h] \/ open
          THEN /\ fd' = [fd EXCEPT ![h] = TRUE]
               /\ filter' = [filter EXCEPT ![h] = bpf_arp(claim'[h], states)]
               /\ arp_probe1(h, g, 0)
          ELSE NoTimer(h, g) /\ UNCHANGED <<probes, fd, filter, rx>>
    BY DEF arp_probe
  <1>2. CASE fd[h] \/ open
    <2>1. /\ fd' = [fd EXCEPT ![h] = TRUE]
          /\ filter' = [filter EXCEPT ![h] = bpf_arp(claim'[h], states)]
          /\ arp_probe1(h, g, 0)
      BY <1>1, <1>2
    <2>2. bpf_arp(claim'[h], states) \subseteq OptAddr
      BY FilterType
    <2>3. /\ SocketOf(h) /\ fd'[h]
          /\ filter'[h] = bpf_arp(claim'[h], states)
      BY <2>1, <2>2 DEF TypeOK, SocketOf
    <2>4. 0 \in Nat /\ 0 < PROBE_NUM
      BY TimeAssumption
    <2> QED
      BY <2>1, <2>3, <2>4, Probe1Facts
  <1>3. CASE ~(fd[h] \/ open)
    <2>1. NoTimer(h, g) /\ UNCHANGED <<probes, fd, filter, rx>>
      BY <1>1, <1>3
    <2>2. SocketOf(h)
      BY <2>1, Zenon DEF TypeOK, SocketOf
    <2> QED
      BY <1>3, <2>1, <2>2, NoTimerFacts, Zenon DEF TypeOK, ProbesKept
  <1> QED
    BY <1>2, <1>3

(* arp_announce announces, or fails to open the socket. *)
LEMMA AnnounceFacts ==
  ASSUME TypeOK, NEW h \in Host, NEW g \in Group, NEW states \in Group,
         NEW flt \in SUBSET OptAddr,
         claim' \in [Host -> [Group -> OptAddr]], claim'[h][g] \in Addr,
         arp_announce(h, g, states, flt)
  PROVE  /\ cb' \in [Host -> [Group -> Callback]]
         /\ left' \in [Host -> [Group -> Nat]]
         /\ rx' \in [Host -> Seq(Frame)]
         /\ SocketOf(h) /\ OthersKept(h, g)
         /\ \/ /\ fd'[h]
               /\ filter'[h] = IF fd[h] THEN flt
                               ELSE bpf_arp(claim'[h], states)
               /\ cb'[h][g] = "arp_announce1"
               /\ TryRequest(rx, h, [kind |-> "claim", addr |-> claim'[h][g]])
            \/ cb'[h][g] = "none" /\ ~fd[h] /\ UNCHANGED <<fd, filter, rx>>
  <1>1. PICK open \in Outcome("open") :
          IF fd[h] \/ open
          THEN /\ fd' = [fd EXCEPT ![h] = TRUE]
               /\ filter' = [filter EXCEPT ![h] =
                               IF fd[h] THEN flt
                               ELSE bpf_arp(claim'[h], states)]
               /\ arp_announce1(h, g)
          ELSE NoTimer(h, g) /\ UNCHANGED <<fd, filter, rx>>
    BY DEF arp_announce
  <1>2. CASE fd[h] \/ open
    <2>1. /\ fd' = [fd EXCEPT ![h] = TRUE]
          /\ filter' = [filter EXCEPT ![h] =
                          IF fd[h] THEN flt ELSE bpf_arp(claim'[h], states)]
          /\ arp_announce1(h, g)
      BY <1>1, <1>2
    <2>2. bpf_arp(claim'[h], states) \subseteq OptAddr
      BY FilterType
    <2>3. /\ SocketOf(h) /\ fd'[h]
          /\ filter'[h] = IF fd[h] THEN flt ELSE bpf_arp(claim'[h], states)
      BY <2>1, <2>2 DEF TypeOK, SocketOf
    <2> QED
      BY <2>1, <2>3, Announce1Facts
  <1>3. CASE ~(fd[h] \/ open)
    <2>1. NoTimer(h, g) /\ UNCHANGED <<fd, filter, rx>>
      BY <1>1, <1>3
    <2>2. SocketOf(h)
      BY <2>1, Zenon DEF TypeOK, SocketOf
    <2> QED
      BY <1>3, <2>1, <2>2, NoTimerFacts, Zenon DEF TypeOK
  <1> QED
    BY <1>2, <1>3

(* ipv4llg_probed puts the claim in use and announces it, or the kernel    *)
(* refuses the address and the group is left without a timeout.            *)
LEMMA ProbedFacts ==
  ASSUME TypeOK, NEW h \in Host, NEW g \in Group, NEW states \in Group,
         NEW flt \in SUBSET OptAddr,
         claim' \in [Host -> [Group -> OptAddr]], claim'[h][g] \in Addr,
         ipv4llg_probed(h, g, states, flt)
  PROVE  /\ ifaddrs' \in [Host -> SUBSET Addr]
         /\ held' \in [Host -> [Group -> OptAddr]]
         /\ defended' \in [Host -> [Group -> BOOLEAN]]
         /\ since' \in [Host -> [Group -> 0..DEFEND_INTERVAL]]
         /\ claims' \in [Host -> [Group -> OptAddr]]
         /\ claims' = claims \/ claims' = [claims EXCEPT ![h] = held'[h]]
         /\ cb' \in [Host -> [Group -> Callback]]
         /\ left' \in [Host -> [Group -> Nat]]
         /\ rx' \in [Host -> Seq(Frame)]
         /\ SocketOf(h) /\ OthersKept(h, g)
         /\ \/ /\ ifaddrs' = [ifaddrs EXCEPT ![h] = @ \cup {claim'[h][g]}]
               /\ held' = [held EXCEPT ![h][g] = claim'[h][g]]
               /\ \/ /\ fd'[h]
                     /\ filter'[h] = IF fd[h] THEN flt
                                     ELSE bpf_arp(claim'[h], states)
                     /\ cb'[h][g] = "arp_announce1"
                     /\ TryRequest(rx, h,
                                   [kind |-> "claim", addr |-> claim'[h][g]])
                  \/ /\ cb'[h][g] = "none" /\ ~fd[h]
                     /\ UNCHANGED <<fd, filter, rx>>
            \/ /\ cb'[h][g] = "none" /\ filter'[h] = flt
               /\ claim'[h][g] \notin ifaddrs[h]
               /\ UNCHANGED <<ifaddrs, held, fd, rx>>
  <1>1. PICK ok \in Outcome("addr") :
          IF ok \/ claim'[h][g] \in ifaddrs[h]
          THEN /\ ifaddrs' = [ifaddrs EXCEPT ![h] = @ \cup {claim'[h][g]}]
               /\ held' = [held EXCEPT ![h][g] = claim'[h][g]]
               /\ defended' = [defended EXCEPT ![h][g] = FALSE]
               /\ since' = [since EXCEPT ![h][g] = 0]
               /\ arp_announce(h, g, states, flt)
               /\ ipv4llg_writeclaims(h)
          ELSE /\ NoTimer(h, g)
               /\ filter' = [filter EXCEPT ![h] = flt]
               /\ UNCHANGED <<ifaddrs, held, defended, since, fd, rx, claims>>
    BY Zenon DEF ipv4llg_probed
  <1>2. CASE ok \/ claim'[h][g] \in ifaddrs[h]
    <2>1. /\ ifaddrs' = [ifaddrs EXCEPT ![h] = @ \cup {claim'[h][g]}]
          /\ held' = [held EXCEPT ![h][g] = claim'[h][g]]
          /\ defended' = [defended EXCEPT ![h][g] = FALSE]
          /\ since' = [since EXCEPT ![h][g] = 0]
          /\ arp_announce(h, g, states, flt)
          /\ ipv4llg_writeclaims(h)
      BY <1>1, <1>2
    <2>2. /\ ifaddrs' \in [Host -> SUBSET Addr]
          /\ held' \in [Host -> [Group -> OptAddr]]
      BY <2>1 DEF TypeOK
    <2>3. /\ defended' \in [Host -> [Group -> BOOLEAN]]
          /\ since' \in [Host -> [Group -> 0..DEFEND_INTERVAL]]
      <3>1. 0 \in 0..DEFEND_INTERVAL
        BY TimeAssumption
      <3> QED
        BY <2>1, <3>1, Zenon DEF TypeOK
    <2>4. /\ claims' = claims \/ claims' = [claims EXCEPT ![h] = held'[h]]
          /\ claims' \in [Host -> [Group -> OptAddr]]
      <3>1. claims' = claims \/ claims' = [claims EXCEPT ![h] = held'[h]]
        BY <2>1, Zenon DEF ipv4llg_writeclaims
      <3>2. claims \in [Host -> [Group -> OptAddr]]
        BY DEF TypeOK
      <3>3. held'[h] \in [Group -> OptAddr]
        BY <2>2, Zenon
      <3> QED
        BY <3>1, <3>2, <3>3
    <2> QED
      BY <2>1, <2>2, <2>3, <2>4, AnnounceFacts, Zenon
  <1>3. CASE ~(ok \/ claim'[h][g] \in ifaddrs[h])
    <2>1. /\ NoTimer(h, g)
          /\ filter' = [filter EXCEPT ![h] = flt]
          /\ UNCHANGED <<ifaddrs, held, defended, since, fd, rx, claims>>
      BY <1>1, <1>3
    <2>2. SocketOf(h) /\ filter'[h] = flt
      BY <2>1 DEF TypeOK, SocketOf
    <2> QED
      BY <1>3, <2>1, <2>2, NoTimerFacts, Zenon DEF TypeOK
  <1> QED
    BY <1>2, <1>3

(* ipv4llg_pickaddr returns an address. *)
LEMMA PickType ==
  ASSUME TypeOK, NEW h \in Host, NEW g \in Group, NEW S,
         NEW a \in ipv4llg_pickaddr(h, g, S)
  PROVE  a \in Addr /\ a \notin S
  BY SetAssumption DEF TypeOK, ipv4llg_pickaddr, OptAddr

(* The end of ipv4llg_conflicted leaves the group waiting to probe again. *)
LEMMA RepickFacts ==
  ASSUME TypeOK, NEW h \in Host, NEW g \in Group, Repick(h, g)
  PROVE  /\ conflicts' \in [Host -> [Group -> 0..MAX_CONFLICTS]]
         /\ claim' \in [Host -> [Group -> OptAddr]]
         /\ last' \in [Host -> [Group -> OptAddr]]
         /\ cb' \in [Host -> [Group -> Callback]]
         /\ left' \in [Host -> [Group -> Nat]]
         /\ claim'[h][g] \in ipv4llg_pickaddr(h, g, ifaddrs'[h])
         /\ claim'[h][g] \in Addr /\ cb'[h][g] = "ipv4llg_probe"
         /\ last'[h][g] = INADDR_ANY
         /\ \A k \in Host, i \in Group : k # h \/ i # g =>
              claim'[k][i] = claim[k][i] /\ last'[k][i] = last[k][i]
         /\ OthersKept(h, g)
  <1> DEFINE n == IF conflicts[h][g] < MAX_CONFLICTS THEN conflicts[h][g] + 1
                                                    ELSE MAX_CONFLICTS
             d == IF n >= MAX_CONFLICTS THEN RATE_LIMIT_INTERVAL
                                        ELSE PROBE_WAIT
  <1>1. n \in 0..MAX_CONFLICTS /\ d \in Nat
    BY TimeAssumption DEF TypeOK
  <1>2. /\ conflicts' = [conflicts EXCEPT ![h][g] = n]
        /\ SetTimer(h, g, "ipv4llg_probe", {d})
    BY DEF Repick
  <1> HIDE DEF n, d
  <1>3. conflicts' \in [Host -> [Group -> 0..MAX_CONFLICTS]]
    BY <1>1, <1>2 DEF TypeOK
  <1>4. PICK a \in ipv4llg_pickaddr(h, g, ifaddrs'[h]) :
          claim' = [claim EXCEPT ![h][g] = a]
    BY Zenon DEF Repick
  <1>5. a \in Addr
    BY <1>4, PickType
  <1>6. /\ claim' \in [Host -> [Group -> OptAddr]] /\ claim'[h][g] = a
        /\ \A k \in Host, i \in Group : k # h \/ i # g =>
             claim'[k][i] = claim[k][i]
    BY <1>4, <1>5, Zenon DEF TypeOK, OptAddr
  <1>7. /\ last' \in [Host -> [Group -> OptAddr]] /\ last'[h][g] = INADDR_ANY
        /\ \A k \in Host, i \in Group : k # h \/ i # g =>
             last'[k][i] = last[k][i]
    BY DEF TypeOK, OptAddr, Repick
  <1>8. {d} \in SUBSET Nat /\ "ipv4llg_probe" \in Callback
    BY <1>1 DEF Callback
  <1> QED
    BY <1>2, <1>3, <1>4, <1>5, <1>6, <1>7, <1>8, SetTimerFacts

(* The ranges of two groups have no address in common. *)
LEMMA OtherPool ==
  ASSUME InPool, NEW h \in Host, NEW g \in Group, NEW i \in Group \ {g}
  PROVE  claim[h][i] \notin Pool[g] /\ held[h][i] \notin Pool[g]
  BY SetAssumption DEF InPool

(* An address that is picked is one of the group's range and not in use on *)
(* the unit.                                                               *)
LEMMA PickPool ==
  ASSUME InPool, NEW h \in Host, NEW g \in Group, NEW S,
         NEW a \in ipv4llg_pickaddr(h, g, S)
  PROVE  a \in Pool[g] /\ a \notin S
  BY SetAssumption DEF InPool, ipv4llg_pickaddr

(* The start of a daemon goes on as long as the process does not change. *)
LEMMA ProcKept ==
  ASSUME TypeOK, UNCHANGED proc
  PROVE  \A k \in Host : proc[k] <= proc'[k]
  BY GroupType DEF TypeOK

(* A running daemon has started every group. *)
LEMMA AllStarted ==
  ASSUME NEW h \in Host, proc[h] = Running
  PROVE  /\ \A i \in Group : i < proc[h] => i <= NGroups
         /\ \A i \in Group : i < proc[h] /\ i <= NGroups
  BY SetAssumption DEF Running, Group

(* A process that ends leaves nothing behind, and the other units alone. *)
LEMMA EndsFacts ==
  ASSUME TypeOK, NEW h \in Host, ProcessEnds(h)
  PROVE  /\ proc'[h] = 0 /\ rx'[h] = <<>>
         /\ \A i \in Group : /\ cb'[h][i] = "none" /\ held'[h][i] = INADDR_ANY
                             /\ claim'[h][i] = INADDR_ANY
                             /\ last'[h][i] = INADDR_ANY
         /\ \A k \in Host \ {h} :
              /\ proc'[k] = proc[k] /\ fd'[k] = fd[k]
              /\ filter'[k] = filter[k] /\ rx'[k] = rx[k]
              /\ cb'[k] = cb[k] /\ left'[k] = left[k] /\ claim'[k] = claim[k]
              /\ held'[k] = held[k] /\ last'[k] = last[k]
  <1>1. /\ proc'[h] = 0 /\ rx'[h] = <<>> /\ cb'[h] = PerGroup("none")
        /\ held'[h] = PerGroup(INADDR_ANY) /\ claim'[h] = PerGroup(INADDR_ANY)
        /\ last'[h] = PerGroup(INADDR_ANY)
    BY Zenon DEF TypeOK, ProcessEnds
  <1>2. \A i \in Group : /\ PerGroup("none")[i] = "none"
                         /\ PerGroup(INADDR_ANY)[i] = INADDR_ANY
    BY Zenon DEF PerGroup
  <1>3. \A k \in Host \ {h} : /\ proc'[k] = proc[k] /\ fd'[k] = fd[k]
                              /\ filter'[k] = filter[k] /\ rx'[k] = rx[k]
    BY Zenon DEF TypeOK, ProcessEnds
  <1>4. \A k \in Host \ {h} :
          /\ cb'[k] = cb[k] /\ left'[k] = left[k] /\ claim'[k] = claim[k]
          /\ held'[k] = held[k] /\ last'[k] = last[k]
    BY Zenon DEF TypeOK, ProcessEnds
  <1> QED
    BY <1>1, <1>2, <1>3, <1>4

-----------------------------------------------------------------------------
(* Type correctness.                                                       *)

(* The initial states are typed. *)
LEMMA TypeInit == Init => TypeInv
  <1> SUFFICES ASSUME Init PROVE TypeInv
    OBVIOUS
  <1>1. TypeOK
    BY SetAssumption, TimeAssumption
    DEF Init, NoDaemon, TypeOK, PerGroup, OptAddr, Running, Callback
  <1>2. TimedClaim
    BY DEF Init, NoDaemon, PerGroup, TimedClaim
  <1> QED
    BY <1>1, <1>2 DEF TypeInv

(* A process that ends leaves typed values. *)
LEMMA EndsType ==
  ASSUME TypeInv, NEW h \in Host, ProcessEnds(h), link' = link,
         claims' = claims, ifaddrs' \in [Host -> SUBSET Addr],
         uptime' \in [Host -> 0..DEFEND_INTERVAL]
  PROVE  TypeInv'
  <1>1. TypeOK'
    <2>1. /\ proc' \in [Host -> 0..Running] /\ fd' \in [Host -> BOOLEAN]
          /\ filter' \in [Host -> SUBSET OptAddr]
          /\ rx' \in [Host -> Seq(Frame)]
      BY GroupType DEF TypeInv, TypeOK, ProcessEnds
    <2>2. PerGroup(INADDR_ANY) \in [Group -> OptAddr]
      BY DEF PerGroup, OptAddr
    <2>3. /\ last' \in [Host -> [Group -> OptAddr]]
          /\ claim' \in [Host -> [Group -> OptAddr]]
          /\ failed' \in [Host -> [Group -> OptAddr]]
          /\ held' \in [Host -> [Group -> OptAddr]]
      BY <2>2, Zenon DEF TypeInv, TypeOK, ProcessEnds
    <2>4. /\ probes' \in [Host -> [Group -> 0..PROBE_NUM]]
          /\ conflicts' \in [Host -> [Group -> 0..MAX_CONFLICTS]]
          /\ since' \in [Host -> [Group -> 0..DEFEND_INTERVAL]]
          /\ left' \in [Host -> [Group -> Nat]]
      BY TimeAssumption DEF TypeInv, TypeOK, ProcessEnds, PerGroup
    <2>5. /\ cb' \in [Host -> [Group -> Callback]]
          /\ defended' \in [Host -> [Group -> BOOLEAN]]
          /\ down' \in [Host -> [Group -> BOOLEAN]]
      BY Zenon DEF TypeInv, TypeOK, ProcessEnds, PerGroup, Callback
    <2> QED
      BY <2>1, <2>3, <2>4, <2>5, Zenon DEF TypeInv, TypeOK
  <1>2. TimedClaim'
    BY Zenon DEF TypeInv, TypeOK, TimedClaim, ProcessEnds, PerGroup
  <1> QED
    BY <1>1, <1>2 DEF TypeInv

(* A step that claims an address for one group and leaves the other claims, *)
(* timeouts and probe counts alone.                                         *)
LEMMA TimedKept ==
  ASSUME TimedClaim, NEW h \in Host, NEW g \in Group, claim'[h][g] \in Addr,
         \A k \in Host, i \in Group : k # h \/ i # g =>
           claim'[k][i] = claim[k][i],
         cb'[h][g] = "arp_probe1" => probes'[h][g] < PROBE_NUM,
         OthersKept(h, g), ProbesKept(h, g)
  PROVE  TimedClaim'
  <1> SUFFICES ASSUME NEW k \in Host, NEW i \in Group
               PROVE  /\ cb'[k][i] # "none" => claim'[k][i] \in Addr
                      /\ cb'[k][i] = "arp_probe1" => probes'[k][i] < PROBE_NUM
    BY Zenon DEF TimedClaim
  <1>1. CASE k = h /\ i = g
    BY <1>1
  <1>2. CASE k # h \/ i # g
    <2>1. /\ claim'[k][i] = claim[k][i] /\ cb'[k][i] = cb[k][i]
          /\ probes'[k][i] = probes[k][i]
      BY <1>2 DEF OthersKept, ProbesKept
    <2> QED
      BY <2>1 DEF TimedClaim
  <1> QED
    BY <1>1, <1>2

LEMMA RepickTimed ==
  ASSUME TypeOK, TimedClaim, NEW h \in Host, NEW g \in Group, Repick(h, g),
         UNCHANGED probes
  PROVE  TimedClaim'
  <1>1. /\ claim'[h][g] \in Addr /\ cb'[h][g] = "ipv4llg_probe"
        /\ \A k \in Host, i \in Group : k # h \/ i # g =>
             claim'[k][i] = claim[k][i] /\ last'[k][i] = last[k][i]
        /\ OthersKept(h, g)
    BY RepickFacts, Zenon
  <1>2. ProbesKept(h, g) /\ cb'[h][g] # "arp_probe1"
    BY <1>1 DEF ProbesKept
  <1> QED
    BY <1>1, <1>2, TimedKept, Zenon

(* Every step of the daemons and of their environment keeps the types. *)
LEMMA TypeNext == TypeInv /\ [Next]_vars => TypeInv'
  <1> SUFFICES ASSUME TypeInv, [Next]_vars PROVE TypeInv'
    OBVIOUS
  <1> USE GroupType
  <1>0. TypeOK /\ TimedClaim
    BY DEF TypeInv
  <1>1. ASSUME NEW h \in Host, ipv4llg_start(h) PROVE TypeInv'
    <2>1. proc' \in [Host -> 0..Running] /\ last' \in [Host -> [Group -> OptAddr]]
      BY <1>0, <1>1, SetAssumption DEF TypeOK, ipv4llg_start, Running
    <2> QED
      BY <1>0, <1>1, <2>1, Zenon
      DEF TypeInv, TypeOK, TimedClaim, ipv4llg_start, kernel, sock, arp, llg
  <1>2. ASSUME NEW h \in Host, ipv4llg_start_one(h) PROVE TypeInv'
    <2> DEFINE g == proc[h]
               flt == IF fd[h] THEN bpf_arp(claim[h], g) ELSE filter[h]
    <2>1. g \in Group /\ proc' = [proc EXCEPT ![h] = g + 1]
      BY <1>2 DEF ipv4llg_start_one
    <2>2. proc' \in [Host -> 0..Running]
      <3>1. g + 1 \in 0..Running
        BY <2>1, SetAssumption DEF Running, Group
      <3> QED
        BY <1>0, <2>1, <3>1 DEF TypeOK
    <2>3. flt \in SUBSET OptAddr
      BY <1>0, <2>1, FilterType, Zenon DEF TypeOK
    <2> HIDE DEF flt
    <2>4. CASE /\ \E a \in ifaddrs[h] \cap Pool[g] :
                    claim' = [claim EXCEPT ![h][g] = a]
               /\ ipv4llg_probed(h, g, g, flt)
               /\ UNCHANGED <<last, probes>>
      <3>1. /\ claim' \in [Host -> [Group -> OptAddr]] /\ claim'[h][g] \in Addr
            /\ \A k \in Host, i \in Group : k # h \/ i # g =>
                 claim'[k][i] = claim[k][i]
        BY <1>0, <2>1, <2>4, SMTT(30) DEF TypeOK, OptAddr
      <3>2. TypeOK'
        BY <1>0, <1>2, <2>1, <2>2, <2>3, <2>4, <3>1, ProbedFacts, Zenon
        DEF TypeOK, ipv4llg_start_one, SocketOf
      <3>3. cb'[h][g] # "arp_probe1" /\ OthersKept(h, g) /\ probes' = probes
        BY <1>0, <2>1, <2>3, <2>4, <3>1, ProbedFacts, Zenon
      <3>4. TimedClaim'
        BY <1>0, <2>1, <3>1, <3>3, TimedKept, Zenon DEF ProbesKept
      <3> QED
        BY <3>2, <3>4, Zenon DEF TypeInv
    <2>5. CASE /\ \E a \in ipv4llg_pickaddr(h, g, ifaddrs[h]) :
                    claim' = [claim EXCEPT ![h][g] = a]
               /\ last' = [last EXCEPT ![h][g] = INADDR_ANY]
               /\ arp_probe(h, g, g)
               /\ UNCHANGED <<ifaddrs, held, defended, since, claims>>
      <3>1. PICK a \in ipv4llg_pickaddr(h, g, ifaddrs[h]) :
              claim' = [claim EXCEPT ![h][g] = a]
        BY <2>5, Zenon
      <3>2. a \in Addr
        BY <1>0, <2>1, PickType, Zenon
      <3>3. /\ claim' \in [Host -> [Group -> OptAddr]] /\ claim'[h][g] \in Addr
            /\ \A k \in Host, i \in Group : k # h \/ i # g =>
                 claim'[k][i] = claim[k][i]
        BY <1>0, <2>1, <3>1, <3>2, Zenon DEF TypeOK, OptAddr
      <3>4. last' \in [Host -> [Group -> OptAddr]]
        BY <1>0, <2>1, <2>5, Zenon DEF TypeOK, OptAddr
      <3>5. TypeOK'
        BY <1>0, <1>2, <2>1, <2>2, <2>5, <3>3, <3>4, ProbeFacts, Zenon
        DEF TypeOK, ipv4llg_start_one, SocketOf
      <3>6. /\ cb'[h][g] = "arp_probe1" => probes'[h][g] < PROBE_NUM
            /\ OthersKept(h, g) /\ ProbesKept(h, g)
        BY <1>0, <2>1, <2>5, <3>3, ProbeFacts, Zenon
      <3>7. TimedClaim'
        BY <1>0, <2>1, <3>3, <3>6 DEF TimedClaim, OthersKept, ProbesKept
      <3> QED
        BY <3>5, <3>7 DEF TypeInv
    <2> QED
      BY <1>2, <2>4, <2>5 DEF ipv4llg_start_one, flt
  <1>3. ASSUME NEW h \in Host, NEW g \in Group, ProbeTimeout(h, g)
        PROVE  TypeInv'
    <2>1. claim' = claim /\ claim'[h][g] \in Addr /\ arp_probe(h, g, NGroups)
      BY <1>0, <1>3, Zenon DEF ProbeTimeout, Due, TimedClaim
    <2>2. TypeOK'
      BY <1>0, <1>3, <2>1, ProbeFacts, Zenon
      DEF TypeOK, ProbeTimeout, SocketOf, kernel, llg
    <2>3. /\ cb'[h][g] = "arp_probe1" => probes'[h][g] < PROBE_NUM
          /\ OthersKept(h, g) /\ ProbesKept(h, g)
      BY <1>0, <2>1, ProbeFacts, Zenon DEF TypeOK
    <2>4. TimedClaim'
      BY <1>0, <1>3, <2>1, <2>3, TimedKept, Zenon
    <2> QED
      BY <2>2, <2>4 DEF TypeInv
  <1>4. ASSUME NEW h \in Host, NEW g \in Group, Probe1Timeout(h, g)
        PROVE  TypeInv'
    <2>1. /\ claim' = claim /\ claim'[h][g] \in Addr
          /\ probes[h][g] \in Nat /\ probes[h][g] < PROBE_NUM
          /\ arp_probe1(h, g, probes[h][g])
      BY <1>0, <1>4 DEF Probe1Timeout, Due, TimedClaim, TypeOK
    <2>2. TypeOK'
      BY <1>0, <1>4, <2>1, Probe1Facts, Zenon
      DEF TypeOK, Probe1Timeout, kernel, llg
    <2>3. /\ cb'[h][g] = "arp_probe1" => probes'[h][g] < PROBE_NUM
          /\ OthersKept(h, g) /\ ProbesKept(h, g)
      BY <1>0, <2>1, Probe1Facts, Zenon
    <2>4. TimedClaim'
      BY <1>0, <1>4, <2>1, <2>3, TimedKept, Zenon
    <2> QED
      BY <2>2, <2>4 DEF TypeInv
  <1>5. ASSUME NEW h \in Host, NEW g \in Group, ProbedTimeout(h, g)
        PROVE  TypeInv'
    <2>1. /\ claim' = claim /\ claim'[h][g] \in Addr
          /\ claim' \in [Host -> [Group -> OptAddr]]
          /\ filter[h] \in SUBSET OptAddr
          /\ ipv4llg_probed(h, g, NGroups, filter[h])
      BY <1>0, <1>5, Zenon DEF ProbedTimeout, Due, TimedClaim, TypeOK
    <2>2. TypeOK'
      BY <1>0, <1>5, <2>1, ProbedFacts, ZenonT(30)
      DEF TypeOK, ProbedTimeout, SocketOf
    <2>3. cb'[h][g] # "arp_probe1" /\ OthersKept(h, g) /\ probes' = probes
      <3>1. cb'[h][g] # "arp_probe1" /\ OthersKept(h, g)
        BY <1>0, <2>1, ProbedFacts, Zenon
      <3> QED
        BY <1>5, <3>1, Zenon DEF ProbedTimeout
    <2>4. TimedClaim'
      BY <1>0, <1>5, <2>1, <2>3, TimedKept, Zenon DEF ProbesKept
    <2> QED
      BY <2>2, <2>4 DEF TypeInv
  <1>6. ASSUME NEW h \in Host, NEW g \in Group, Announce1Timeout(h, g)
        PROVE  TypeInv'
    <2>1. claim' = claim /\ claim'[h][g] \in Addr /\ arp_announce1(h, g)
      BY <1>0, <1>6, Zenon DEF Announce1Timeout, Due, TimedClaim
    <2>2. TypeOK'
      BY <1>0, <1>6, <2>1, Announce1Facts, Zenon
      DEF TypeOK, Announce1Timeout, kernel, llg
    <2>3. cb'[h][g] = "arp_announce1" /\ OthersKept(h, g)
      BY <1>0, <2>1, Announce1Facts, Zenon
    <2>4. TimedClaim'
      <3>1. probes' = probes /\ cb'[h][g] # "arp_probe1"
        BY <1>6, <2>3 DEF Announce1Timeout
      <3> QED
        BY <1>0, <2>1, <2>3, <3>1, TimedKept, Zenon DEF ProbesKept
    <2> QED
      BY <2>2, <2>4 DEF TypeInv
  <1>7. ASSUME NEW h \in Host, arp_read(h) PROVE TypeInv'
    <2> DEFINE rest == [rx EXCEPT ![h] = Tail(@)]
    <2>1. rx[h] \in Seq(Frame) /\ rx[h] # <<>> /\ Head(rx[h]) \in Frame
      BY <1>0, <1>7, RangeTail, Zenon DEF TypeOK, arp_read
    <2>2. rest \in [Host -> Seq(Frame)]
      BY <1>0, <2>1, RangeTail, ZenonT(30) DEF TypeOK
    <2>3. UNCHANGED <<link, uptime, claims, proc, fd, probes>>
      BY <1>7, Zenon DEF arp_read
    <2> HIDE DEF rest
    <2>4. CASE /\ rx' = rest
               /\ UNCHANGED <<filter, ifaddrs, last, claim, failed, cb, left, llg>>
      BY <1>0, <2>2, <2>3, <2>4, Zenon DEF TypeInv, TypeOK, TimedClaim, llg
    <2>5. ASSUME NEW g \in Group, Fails(h, g, Head(rx[h])),
                 ipv4llg_conflicted(h, g, rest)
          PROVE  TypeInv'
      <3>1. claim[h][g] \in Addr
        BY <2>1, <2>5 DEF Fails, Frame
      <3>2. failed' \in [Host -> [Group -> OptAddr]]
        <4>1. failed' = [failed EXCEPT ![h][g] = claim[h][g]]
          BY <2>5, Zenon DEF ipv4llg_conflicted
        <4>2. failed \in [Host -> [Group -> OptAddr]]
          BY <1>0, Zenon DEF TypeOK
        <4>3. claim[h][g] \in OptAddr
          BY <3>1 DEF OptAddr
        <4> QED
          BY <4>1, <4>2, <4>3
      <3>3. CASE DefendClaim(h, g, rest)
        <4>1. /\ held[h][g] = claim[h][g]
              /\ [kind |-> "claim", addr |-> held[h][g]] \in Frame
          BY <3>1, <3>3, Zenon DEF DefendClaim, Frame
        <4>2. rx' \in [Host -> Seq(Frame)]
          BY <2>2, <3>3, <4>1, RequestSent DEF DefendClaim, Sent
        <4>3. /\ defended' \in [Host -> [Group -> BOOLEAN]]
              /\ since' \in [Host -> [Group -> 0..DEFEND_INTERVAL]]
          <5>1. /\ defended \in [Host -> [Group -> BOOLEAN]]
                /\ since \in [Host -> [Group -> 0..DEFEND_INTERVAL]]
            BY <1>0, Zenon DEF TypeOK
          <5>2. /\ defended' = [defended EXCEPT ![h][g] = TRUE]
                /\ since' = [since EXCEPT ![h][g] = 0]
            BY <3>3, Zenon DEF DefendClaim
          <5> QED
            BY <5>1, <5>2, TimeAssumption, SMTT(30)
        <4> QED
          BY <1>0, <2>3, <3>2, <3>3, <4>2, <4>3, Zenon
          DEF TypeInv, TypeOK, TimedClaim, DefendClaim
      <3>4. CASE LoseClaim(h, g, rest)
        <4>1. /\ ifaddrs' \in [Host -> SUBSET Addr]
              /\ down' \in [Host -> [Group -> BOOLEAN]]
              /\ held' \in [Host -> [Group -> OptAddr]]
          BY <1>0, <3>4, Zenon DEF TypeOK, LoseClaim, OptAddr
        <4>2. Repick(h, g) /\ rx' = rest /\ UNCHANGED <<filter, defended, since>>
          BY <3>4 DEF LoseClaim
        <4>3. TypeOK'
          BY <1>0, <2>2, <2>3, <3>2, <4>1, <4>2, RepickFacts, Zenon DEF TypeOK
        <4>4. TimedClaim'
          BY <1>0, <2>3, <4>2, RepickTimed, Zenon
        <4> QED
          BY <4>3, <4>4, Zenon DEF TypeInv
      <3>5. CASE AbandonProbe(h, g, rest)
        <4>1. /\ Repick(h, g) /\ rx' = rest
              /\ UNCHANGED <<filter, ifaddrs, held, defended, since, down>>
          BY <3>5, Zenon DEF AbandonProbe
        <4>2. TypeOK'
          BY <1>0, <2>2, <2>3, <3>2, <4>1, RepickFacts, Zenon DEF TypeOK
        <4>3. TimedClaim'
          BY <1>0, <2>3, <4>1, RepickTimed, Zenon
        <4> QED
          BY <4>2, <4>3, Zenon DEF TypeInv
      <3> QED
        BY <2>5, <3>3, <3>4, <3>5 DEF ipv4llg_conflicted
    <2> QED
      BY <1>7, <2>4, <2>5, Zenon DEF arp_read, rest
  <1>8. ASSUME NEW h \in Host, arp_read_error(h) PROVE TypeInv'
    <2>1. /\ fd' \in [Host -> BOOLEAN] /\ filter' \in [Host -> SUBSET OptAddr]
          /\ rx' \in [Host -> Seq(Frame)]
      BY <1>0, <1>8 DEF TypeOK, arp_read_error
    <2> QED
      BY <1>0, <1>8, <2>1, Zenon
      DEF TypeInv, TypeOK, TimedClaim, arp_read_error, kernel, arp, llg
  <1>9. ASSUME NEW h \in Host, UnitFault(h) PROVE TypeInv'
    <2>1. /\ ProcessEnds(h) /\ link' = link /\ claims' = claims
          /\ ifaddrs' \in [Host -> SUBSET Addr]
          /\ uptime' \in [Host -> 0..DEFEND_INTERVAL]
      <3>1. CASE Crash(h)
        BY <1>0, <3>1 DEF TypeOK, Crash
      <3>2. CASE ipv4llg_drop(h)
        BY <1>0, <3>2, Zenon DEF TypeOK, ipv4llg_drop
      <3>3. CASE Reboot(h)
        BY <1>0, <3>3, TimeAssumption, SMTT(30) DEF TypeOK, Reboot
      <3> QED
        BY <1>9, <3>1, <3>2, <3>3, Zenon DEF UnitFault
    <2> QED
      BY <2>1, EndsType
  <1>10. ASSUME NEW h \in Host, Cable(h) PROVE TypeInv'
    BY <1>0, <1>10, Zenon
    DEF TypeInv, TypeOK, TimedClaim, Cable, sock, arp, llg
  <1>11. CASE Tick
    <2>1. uptime' \in [Host -> 0..DEFEND_INTERVAL]
      BY <1>0, <1>11, TimeAssumption, SMTT(30) DEF TypeOK, Tick
    <2>2. left' \in [Host -> [Group -> Nat]]
      <3>1. ASSUME NEW h \in Host, NEW g \in Group
            PROVE  (IF cb[h][g] = "none" THEN left[h][g] ELSE left[h][g] - 1)
                      \in Nat
        BY <1>0, <1>11, SMTT(30) DEF TypeOK, Tick
      <3> QED
        BY <1>11, <3>1, Zenon DEF Tick
    <2>3. since' \in [Host -> [Group -> 0..DEFEND_INTERVAL]]
      <3>1. ASSUME NEW h \in Host, NEW g \in Group
            PROVE  (IF defended[h][g] /\ since[h][g] < DEFEND_INTERVAL
                    THEN since[h][g] + 1 ELSE since[h][g])
                      \in 0..DEFEND_INTERVAL
        <4>1. since[h][g] \in 0..DEFEND_INTERVAL
          BY <1>0, Zenon DEF TypeOK
        <4> QED
          BY <4>1, TimeAssumption, SMTT(30)
      <3> QED
        BY <1>11, <3>1, Zenon DEF Tick
    <2> QED
      BY <1>0, <1>11, <2>1, <2>2, <2>3, Zenon
      DEF TypeInv, TypeOK, TimedClaim, Tick, sock
  <1>12. CASE UNCHANGED vars
    BY <1>0, <1>12 DEF TypeInv, TypeOK, TimedClaim, vars
  <1> QED
    BY <1>1, <1>2, <1>3, <1>4, <1>5, <1>6, <1>7, <1>8, <1>9, <1>10, <1>11,
       <1>12 DEF Next, ConnectedNext, DaemonStep

(* Spec => []TypeOK: no step of any daemon, of any unit failure or of any  *)
(* cable takes a variable out of its range.                                *)
THEOREM TypeCorrect == Spec => []TypeOK
  <1>1. TypeInv => TypeOK
    BY DEF TypeInv
  <1> QED
    BY <1>1, TypeInit, TypeNext, PTL DEF Spec
=============================================================================
