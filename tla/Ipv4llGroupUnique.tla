------------------------- MODULE Ipv4llGroupUnique --------------------------
(* On a network whose cables stay plugged, and whose frames are sent and   *)
(* read, no two units ever have the same address.                          *)
EXTENDS Ipv4llGroupNetwork

(* ipv4llg_start and the reading of a frame that concerns nobody change    *)
(* nothing that the units share.                                           *)
LEMMA LocalSame ==
  ASSUME LocalInv, TypeInv',
         UNCHANGED <<link, ifaddrs, claims, fd, filter, claim, cb, held>>,
         \A k \in Host : proc[k] <= proc'[k],
         \A k \in Host, g \in Group : last'[k][g] \in {last[k][g], claims[k][g]}
  PROVE  LocalInv'
  <1>1. TypeInv' /\ AllLinked'
    BY DEF LocalInv, AllLinked
  <1>2. InPool'
    BY DEF LocalInv, InPool
  <1>3. TimersOfStarted'
    <2> SUFFICES ASSUME NEW k \in Host, NEW i \in Group, cb[k][i] # "none"
                 PROVE  i < proc'[k]
      BY Zenon DEF TimersOfStarted
    <2>1. i < proc[k] /\ i \in Nat /\ proc[k] \in Nat /\ proc'[k] \in Nat
      BY GroupType DEF LocalInv, TypeInv, TypeOK, TimersOfStarted
    <2> QED
      BY <2>1
  <1>4. AnnouncesHeld' /\ ProbingListens'
    BY DEF LocalInv, AnnouncesHeld, ProbingListens, Probing, Claiming
  <1> QED
    BY <1>1, <1>2, <1>3, <1>4 DEF LocalInv

(* A unit whose daemon ends keeps the invariant. *)
LEMMA EndsKeeps ==
  ASSUME LocalInv, GlobalInv, TypeInv', NEW h \in Host, ProcessEnds(h),
         UNCHANGED <<link, claims>>,
         NEW S \in SUBSET ifaddrs[h], ifaddrs' = [ifaddrs EXCEPT ![h] = @ \ S]
  PROVE  LocalInv' /\ GlobalInv' /\ AddressStep
  <1>1. TypeOK /\ TypeOK'
    BY Zenon DEF LocalInv, TypeInv
  <1>2. \A i \in Group : /\ cb'[h][i] = "none" /\ held'[h][i] = INADDR_ANY
                         /\ claim'[h][i] = INADDR_ANY
                         /\ last'[h][i] = INADDR_ANY
    BY <1>1, EndsFacts, Zenon
  <1>3. \A k \in Host \ {h} :
          /\ proc'[k] = proc[k] /\ fd'[k] = fd[k] /\ filter'[k] = filter[k]
          /\ rx'[k] = rx[k] /\ ifaddrs'[k] = ifaddrs[k]
          /\ \A i \in Group : SameGroup(k, i)
    <2>1. \A k \in Host \ {h} : ifaddrs'[k] = ifaddrs[k]
      BY <1>1, Zenon DEF TypeOK
    <2>2. \A k \in Host \ {h} :
            /\ proc'[k] = proc[k] /\ fd'[k] = fd[k] /\ filter'[k] = filter[k]
            /\ rx'[k] = rx[k] /\ cb'[k] = cb[k] /\ left'[k] = left[k]
            /\ claim'[k] = claim[k] /\ held'[k] = held[k] /\ last'[k] = last[k]
      BY <1>1, EndsFacts
    <2> QED
      BY <2>1, <2>2 DEF SameGroup, SameClaim
  <1>4. /\ rx'[h] = <<>> /\ ifaddrs'[h] \subseteq ifaddrs[h]
        /\ rx' \in [Host -> Seq(Frame)] /\ proc'[h] = 0
    <2>1. ifaddrs'[h] = ifaddrs[h] \ S
      BY <1>1, Zenon DEF TypeOK
    <2>2. rx' \in [Host -> Seq(Frame)]
      BY <1>1, Zenon DEF TypeOK
    <2> QED
      BY <1>1, <2>1, <2>2, EndsFacts, Zenon
  <1>5. AllLinked' /\ InPool'
    <2>1. AllLinked'
      BY Zenon DEF LocalInv, AllLinked
    <2>2. ASSUME NEW k \in Host, NEW i \in Group
          PROVE  {claims'[k][i], last'[k][i], claim'[k][i], held'[k][i]}
                    \subseteq Pool[i] \cup {INADDR_ANY}
      <3>1. CASE k = h
        BY <1>2, <3>1 DEF LocalInv, InPool
      <3>2. CASE k # h
        BY <1>3, <3>2 DEF LocalInv, InPool, SameGroup, SameClaim
      <3> QED
        BY <3>1, <3>2
    <2> QED
      BY <2>1, <2>2 DEF InPool
  <1>6. TimersOfStarted' /\ AnnouncesHeld'
    <2>1. TimersOfStarted'
      BY <1>2, <1>3 DEF LocalInv, TimersOfStarted, SameGroup, SameClaim
    <2>2. AnnouncesHeld'
      BY <1>2, <1>3 DEF LocalInv, AnnouncesHeld, SameGroup, SameClaim
    <2> QED
      BY <2>1, <2>2
  <1>7. ProbingListens'
    <2>1. \A i \in Group : ~Probing(h, i)' /\ ~Claiming(h, i)'
      BY <1>2 DEF Probing, Claiming
    <2>2. \A k \in Host \ {h}, i \in Group :
            /\ Probing(k, i)' => Probing(k, i)
            /\ Claiming(k, i)' => Claiming(k, i)
      BY <1>3, Zenon DEF Probing, Claiming, SameGroup, SameClaim
    <2> QED
      BY <1>3, <2>1, <2>2 DEF LocalInv, ProbingListens, SameGroup, SameClaim
  <1>8. QuietStep(h)
    <2>1. Range(rx'[h]) = {}
      BY <1>4 DEF Range
    <2> QED
      BY <1>2, <1>3, <1>4, <2>1, Zenon DEF QuietStep, ProbingCb, SameGroup
  <1>9. Abstract!Release(h, S)
    BY DEF Abstract!Release
  <1>10. AddressStep
    BY <1>4, <1>9 DEF AddressStep
  <1> QED
    BY <1>5, <1>6, <1>7, <1>8, <1>10, QuietKeeps DEF LocalInv

(* New units satisfy the invariant. *)
LEMMA UniqueInit == Init => UniqueInv
  <1> SUFFICES ASSUME Init PROVE UniqueInv
    OBVIOUS
  <1>1. TypeInv
    BY TypeInit
  <1>2. /\ AllLinked /\ InPool /\ TimersOfStarted /\ AnnouncesHeld
        /\ ProbingListens
    BY DEF Init, NoDaemon, PerGroup, AllLinked, InPool, TimersOfStarted,
           AnnouncesHeld, ProbingListens, Probing, Claiming
  <1>3. \A h \in Host, g \in Group : ~Probing(h, g) /\ ~AlmostProbed(h, g)
    BY DEF Init, NoDaemon, PerGroup, Probing, AlmostProbed
  <1>4. \A h \in Host : Range(rx[h]) = {} /\ ifaddrs[h] = {}
    BY DEF Init, NoDaemon, Range
  <1>5. GlobalInv
    BY <1>3, <1>4, Zenon
    DEF GlobalInv, UsedIsDoomed, RivalIsDoomed, LastOneStanding, Uncontested,
        Unique
  <1> QED
    BY <1>1, <1>2, <1>5 DEF UniqueInv, LocalInv

(* A group in arp_probe1 has a probe left to send. *)
LEMMA ProbesLeft ==
  ASSUME LocalInv, NEW h \in Host, NEW g \in Group, cb[h][g] = "arp_probe1"
  PROVE  probes[h][g] \in Nat /\ probes[h][g] < PROBE_NUM
  BY DEF LocalInv, TypeInv, TimedClaim, TypeOK

(* ipv4llg_start_one keeps the invariant: it uses an address that the unit *)
(* has, or probes for one that it has not.                                 *)
LEMMA StartOneKeeps ==
  ASSUME Reliable, LocalInv, GlobalInv, TypeInv',
         NEW h \in Host, ipv4llg_start_one(h)
  PROVE  LocalInv' /\ GlobalInv' /\ AddressStep
  <1> DEFINE g == proc[h]
             flt == IF fd[h] THEN bpf_arp(claim[h], g) ELSE filter[h]
  <1>1. TypeOK /\ TypeOK' /\ g \in Group
    BY DEF LocalInv, TypeInv, ipv4llg_start_one
  <1>2. g \in Nat /\ proc' = [proc EXCEPT ![h] = g + 1] /\ link' = link
    BY <1>1, GroupType DEF ipv4llg_start_one
  <1>3. g < proc'[h] /\ \A k \in Host : proc[k] <= proc'[k]
    <2>1. \A k \in Host : proc[k] \in Nat
      BY <1>1, GroupType DEF TypeOK
    <2>2. proc'[h] = g + 1 /\ \A k \in Host \ {h} : proc'[k] = proc[k]
      BY <1>1, <1>2 DEF TypeOK
    <2> QED
      BY <1>2, <2>1, <2>2
  <1>4. /\ g <= g
        /\ \A i \in Group : i < proc[h] => i <= g
    BY <1>2, GroupType
  <1>5. claim[h] \in [Group -> OptAddr]
    BY <1>1 DEF TypeOK
  <1>6. flt \in SUBSET OptAddr
    BY <1>1, <1>5, FilterType, Zenon DEF TypeOK
  <1>7. \A i \in Group \ {g} : Probing(h, i) => claim[h][i] \in flt
    <2> SUFFICES ASSUME NEW i \in Group \ {g}, Probing(h, i)
                 PROVE  claim[h][i] \in flt
      BY Zenon
    <2>1. i <= g /\ fd[h]
      BY <1>4 DEF LocalInv, TimersOfStarted, ProbingListens, Probing
    <2> QED
      BY <1>1, <1>5, <2>1, FilterType, Zenon DEF Reliable
  <1> HIDE DEF flt
  <1>8. CASE /\ \E a \in ifaddrs[h] \cap Pool[g] :
                  claim' = [claim EXCEPT ![h][g] = a]
             /\ ipv4llg_probed(h, g, g, flt)
             /\ UNCHANGED last
    <2>1. /\ claim'[h][g] \in Pool[g] /\ claim'[h][g] \in ifaddrs[h]
          /\ \A k \in Host, i \in Group : k # h \/ i # g =>
               claim'[k][i] = claim[k][i]
      BY <1>1, <1>8, SMTT(30) DEF TypeOK
    <2> QED
      BY <1>1, <1>2, <1>3, <1>6, <1>7, <1>8, <2>1, ClaimGroup, ZenonT(30)
  <1>9. CASE /\ ifaddrs[h] \cap Pool[g] = {}
             /\ \E a \in ipv4llg_pickaddr(h, g, ifaddrs[h]) :
                  claim' = [claim EXCEPT ![h][g] = a]
             /\ last' = [last EXCEPT ![h][g] = INADDR_ANY]
             /\ arp_probe(h, g, g)
             /\ UNCHANGED <<ifaddrs, held, claims>>
    <2>1. PICK a \in ipv4llg_pickaddr(h, g, ifaddrs[h]) :
            claim' = [claim EXCEPT ![h][g] = a]
      BY <1>9, Zenon
    <2>2. a \in Pool[g] /\ a \notin ifaddrs[h]
      BY <1>1, PickPool, Zenon DEF LocalInv
    <2>3. /\ claim'[h][g] \in Pool[g] \ ifaddrs[h]
          /\ \A k \in Host, i \in Group : k # h \/ i # g =>
               claim'[k][i] = claim[k][i]
      BY <1>1, <2>1, <2>2 DEF TypeOK
    <2>4. /\ last'[h][g] = INADDR_ANY
          /\ \A k \in Host, i \in Group : k # h \/ i # g =>
               last'[k][i] = last[k][i]
      BY <1>1, <1>9 DEF TypeOK
    <2>5. held[h][g] = INADDR_ANY
      BY <1>1, <1>9 DEF LocalInv, AnnouncesHeld, InPool
    <2> QED
      BY <1>1, <1>2, <1>3, <1>4, <1>9, <2>3, <2>4, <2>5, ProbeGroup
      DEF AddressStep
  <1> QED
    BY <1>8, <1>9 DEF ipv4llg_start_one, flt

(* Reading a frame keeps the invariant.  The frame never contests an       *)
(* address in use, so that it makes a group abandon its probing at most.   *)
LEMMA ReadKeeps ==
  ASSUME LocalInv, GlobalInv, TypeInv', NEW h \in Host, arp_read(h)
  PROVE  LocalInv' /\ GlobalInv' /\ AddressStep
  <1> DEFINE f == Head(rx[h])
             rest == [rx EXCEPT ![h] = Tail(@)]
  <1>1. TypeOK /\ TypeOK' /\ proc[h] = Running
    BY Zenon DEF LocalInv, TypeInv, arp_read
  <1>2. /\ rx[h] \in Seq(Frame) /\ rx[h] # <<>> /\ f \in Frame
        /\ Tail(rx[h]) \in Seq(Frame)
        /\ Range(rx[h]) = {f} \cup Range(Tail(rx[h]))
    BY <1>1, RangeTail, Zenon DEF TypeOK, arp_read
  <1>3. /\ rest \in [Host -> Seq(Frame)]
        /\ Range(rx[h]) = {f} \cup Range(rest[h])
        /\ \A k \in Host \ {h} : rest[k] = rx[k]
    BY <1>1, <1>2, Zenon DEF TypeOK
  <1>4. UNCHANGED <<link, uptime, claims, proc, fd, probes>>
    BY DEF arp_read
  <1>5. \A k \in Host : proc[k] <= proc'[k]
    BY <1>1, <1>4, GroupType DEF TypeOK
  <1> HIDE DEF f, rest
  <1>6. CASE /\ \A g \in Group : ~Fails(h, g, f)
             /\ rx' = rest
             /\ UNCHANGED <<filter, ifaddrs, last, claim, failed, cb, left, llg>>
    <2>1. LocalInv'
      BY <1>4, <1>5, <1>6, LocalSame, Zenon DEF llg
    <2>2. QuietStep(h)
      BY <1>3, <1>6, Zenon DEF QuietStep, SameFate, SameClaim
    <2> QED
      BY <1>6, <2>1, <2>2, QuietKeeps, Zenon DEF AddressStep
  <1>7. ASSUME NEW g \in Group, Fails(h, g, f), ipv4llg_conflicted(h, g, rest)
        PROVE  LocalInv' /\ GlobalInv' /\ AddressStep
    <2>1. held[h][g] # claim[h][g]
      <3> SUFFICES ASSUME held[h][g] = claim[h][g] PROVE FALSE
        OBVIOUS
      <3>1. f.addr = claim[h][g] /\ f.addr \in Addr
        BY <1>2, <1>7 DEF Fails, Frame
      <3>2. f.addr \in ifaddrs[h]
        BY <3>1, SetAssumption DEF LocalInv, AnnouncesHeld
      <3>3. f.kind = "claim"
        BY <1>7, <3>2, Zenon DEF Fails
      <3> QED
        BY <1>3, <3>2, <3>3 DEF GlobalInv, Uncontested
    <2>2. /\ Repick(h, g) /\ rx' = rest
          /\ UNCHANGED <<filter, ifaddrs, held>>
      BY <1>7, <2>1
      DEF ipv4llg_conflicted, DefendClaim, LoseClaim, AbandonProbe
    <2>3. held[h][g] = INADDR_ANY
      BY <2>1, Zenon DEF LocalInv, AnnouncesHeld
    <2>4. /\ claim'[h][g] \in ipv4llg_pickaddr(h, g, ifaddrs'[h])
          /\ claim'[h][g] \in Addr /\ cb'[h][g] = "ipv4llg_probe"
          /\ last'[h][g] = INADDR_ANY
          /\ \A k \in Host, i \in Group : k # h \/ i # g =>
               claim'[k][i] = claim[k][i] /\ last'[k][i] = last[k][i]
          /\ OthersKept(h, g)
      BY <1>1, <2>2, RepickFacts, Zenon
    <2>5. claim'[h][g] \in Pool[g] /\ claim'[h][g] \notin ifaddrs'[h]
      BY <2>4, PickPool, Zenon DEF LocalInv
    <2>6. \A k \in Host, i \in Group : k # h \/ i # g => SameClaim(k, i)
      BY <2>4 DEF OthersKept, SameClaim
    <2>7. \A k \in Host, i \in Group : k # h \/ i # g => SameGroup(k, i)
      BY <2>2, <2>4, <2>6, Zenon DEF SameGroup
    <2>8. GroupStep(h, g)
      BY <1>4, <1>5, <2>2, <2>7, ZenonT(30)
      DEF GroupStep, LocalInv, ProbingListens
    <2>9. GroupEnds(h, g)
      <3>1. g < proc'[h]
        BY <1>1, <1>4, SetAssumption DEF Running, Group
      <3> QED
        BY <2>2, <2>3, <2>4, <2>5, <3>1 DEF GroupEnds, Probing
    <2>10. QuietStep(h)
      <3>1. f.addr = claim[h][g] /\ f.addr \in Addr
        BY <1>2, <1>7, Zenon DEF Fails, Frame
      <3>2. f.addr \in Pool[g]
        BY <3>1, SetAssumption DEF LocalInv, InPool
      <3>3. \A i \in Group \ {g} : ~Fails(h, i, f)
        BY <3>1, <3>2, OtherPool, ZenonT(30) DEF LocalInv, Fails
      <3>4. \A i \in Group : cb'[h][i] \in ProbingCb => SameFate(h, i, rest)
        BY <1>3, <2>4, <2>6, <3>3, Zenon DEF ProbingCb, SameFate
      <3>5. \A k \in Host \ {h} : rest[k] = rx[k] /\ \A i \in Group : SameClaim(k, i)
        BY <1>3, <2>6
      <3> QED
        BY <1>3, <2>2, <3>4, <3>5, Zenon DEF QuietStep
    <2> QED
      BY <2>2, <2>8, <2>9, <2>10, LocalGroup, QuietKeeps, Zenon DEF AddressStep
  <1> QED
    BY <1>6, <1>7, Zenon DEF arp_read, f, rest

(* ipv4llg_start keeps the invariant: it reads the claims file and touches *)
(* no address.                                                             *)
LEMMA StartKeeps ==
  ASSUME LocalInv, GlobalInv, TypeInv',
         NEW h \in Host, ipv4llg_start(h)
  PROVE  LocalInv' /\ GlobalInv' /\ AddressStep
  <1>0. TypeOK /\ TypeOK'
    BY Zenon DEF LocalInv, TypeInv
  <1>1. /\ UNCHANGED <<link, ifaddrs, claims, fd, filter, rx, claim, cb, left,
                       held>>
        /\ proc[h] = 0 /\ proc' = [proc EXCEPT ![h] = 1]
        /\ last' = [last EXCEPT ![h] = claims[h]]
    BY DEF ipv4llg_start, kernel, sock, arp, llg
  <1>2. \A k \in Host : proc[k] <= proc'[k]
    <2>1. \A k \in Host : proc[k] \in Nat
      BY <1>0, GroupType DEF TypeOK
    <2>2. proc'[h] = 1 /\ \A k \in Host \ {h} : proc'[k] = proc[k]
      BY <1>0, <1>1 DEF TypeOK
    <2> QED
      BY <1>1, <2>1, <2>2
  <1>3. \A k \in Host, g \in Group : last'[k][g] \in {last[k][g], claims[k][g]}
    BY <1>0, <1>1 DEF TypeOK
  <1>4. QuietStep(h)
    BY <1>0, <1>1 DEF TypeOK, QuietStep, SameFate, SameClaim
  <1> QED
    BY <1>0, <1>1, <1>2, <1>3, <1>4, LocalSame, QuietKeeps, Zenon
    DEF AddressStep

(* So does arp_probe, called when the wait before probing is over ...      *)
LEMMA ProbeTimeoutKeeps ==
  ASSUME Reliable, LocalInv, GlobalInv, TypeInv',
         NEW h \in Host, NEW g \in Group, ProbeTimeout(h, g)
  PROVE  LocalInv' /\ GlobalInv' /\ AddressStep
  <1>0. TypeOK /\ TypeOK'
    BY Zenon DEF LocalInv, TypeInv
  <1>1. /\ proc[h] = Running /\ cb[h][g] = "ipv4llg_probe"
        /\ arp_probe(h, g, NGroups)
        /\ UNCHANGED <<link, ifaddrs, claims, proc, last, claim, held>>
    BY ZenonT(30) DEF ProbeTimeout, Due, kernel, llg
  <1>2. Claiming(h, g)
    BY <1>1, Zenon DEF Claiming
  <1>3. /\ claim[h][g] \in Addr \ ifaddrs[h]
        /\ held[h][g] = INADDR_ANY
    BY <1>2, ClaimingHasNone DEF LocalInv, ProbingListens
  <1>4. claim[h][g] \in Pool[g] /\ last[h][g] \in Pool[g] \cup {INADDR_ANY}
    BY <1>3, SetAssumption, Zenon DEF LocalInv, InPool
  <1> QED
    BY <1>0, <1>1, <1>3, <1>4, ProcKept, AllStarted, ProbeGroup, GroupType,
       ZenonT(30)
    DEF AddressStep

(* ... arp_probe1, which sends a probe ...                                 *)
LEMMA Probe1TimeoutKeeps ==
  ASSUME Reliable, LocalInv, GlobalInv, TypeInv',
         NEW h \in Host, NEW g \in Group, Probe1Timeout(h, g)
  PROVE  LocalInv' /\ GlobalInv' /\ AddressStep
  <1>0. TypeOK /\ TypeOK'
    BY Zenon DEF LocalInv, TypeInv
  <1>1. /\ proc[h] = Running /\ cb[h][g] = "arp_probe1"
        /\ arp_probe1(h, g, probes[h][g])
        /\ UNCHANGED <<link, ifaddrs, claims, proc, fd, filter, last, claim,
                       held>>
    BY Zenon DEF Probe1Timeout, Due, kernel, llg
  <1>2. Probing(h, g) /\ Claiming(h, g)
    BY <1>1, Zenon DEF Probing, Claiming
  <1>3. /\ claim[h][g] \in Addr \ ifaddrs[h]
        /\ fd[h] /\ claim[h][g] \in filter[h]
        /\ held[h][g] = INADDR_ANY
    BY <1>2, ClaimingHasNone DEF LocalInv, ProbingListens
  <1>4. claim[h][g] \in Pool[g] /\ last[h][g] \in Pool[g] \cup {INADDR_ANY}
    BY <1>3, SetAssumption, Zenon DEF LocalInv, InPool
  <1>5. probes[h][g] \in Nat /\ probes[h][g] < PROBE_NUM
    BY <1>1, ProbesLeft, Zenon
  <1>6. /\ cb'[h][g] \in {"arp_probe1", "arp_probed"}
        /\ cb'[h][g] = "arp_probed" => left'[h][g] = ANNOUNCE_WAIT
        /\ OthersKept(h, g)
        /\ TryRequest(rx, h, [kind |-> "probe", addr |-> claim'[h][g]])
    BY <1>0, <1>1, <1>3, <1>5, Probe1Facts, Zenon
  <1>7. \A k \in Host, i \in Group : k # h \/ i # g =>
          SameClaim(k, i) /\ SameGroup(k, i)
    BY <1>1, <1>6, Zenon DEF OthersKept, SameClaim, SameGroup
  <1>8. GroupStep(h, g)
    BY <1>0, <1>1, <1>7, ProcKept, ZenonT(30)
    DEF GroupStep, LocalInv, ProbingListens
  <1>9. GroupEnds(h, g)
    BY <1>1, <1>3, <1>4, <1>6, AllStarted, Zenon DEF GroupEnds
  <1>10. Sent(rx, h, [kind |-> "probe", addr |-> claim'[h][g]])
    <2>1. [kind |-> "probe", addr |-> claim'[h][g]] \in Frame
      BY <1>1, <1>3, Zenon DEF Frame
    <2> QED
      BY <1>0, <1>1, <1>3, <1>6, <2>1, TryRequestSent, Zenon
      DEF TypeOK, Reliable
  <1>11. \A i \in Group \ {g} : claim[h][i] # claim[h][g]
    BY <1>4, OtherPool DEF LocalInv
  <1>12. ProbeStep(h, g)
    BY <1>1, <1>3, <1>6, <1>7, <1>10, <1>11, Zenon DEF ProbeStep
  <1> QED
    BY <1>0, <1>1, <1>8, <1>9, <1>12, LocalGroup, ProbeKeeps, Zenon DEF AddressStep

(* ... ipv4llg_probed, which takes the address ...                         *)
LEMMA ProbedTimeoutKeeps ==
  ASSUME Reliable, LocalInv, GlobalInv, TypeInv',
         NEW h \in Host, NEW g \in Group, ProbedTimeout(h, g)
  PROVE  LocalInv' /\ GlobalInv' /\ AddressStep
  <1>0. TypeOK /\ TypeOK'
    BY DEF LocalInv, TypeInv
  <1>1. /\ proc[h] = Running /\ cb[h][g] = "arp_probed" /\ left[h][g] = 0
        /\ ipv4llg_probed(h, g, NGroups, filter[h])
        /\ UNCHANGED <<link, proc, last, claim>>
    BY Zenon DEF ProbedTimeout, Due
  <1>2. AlmostProbed(h, g) /\ Probing(h, g) /\ Claiming(h, g)
    BY <1>1, TimeAssumption, SMTT(30) DEF AlmostProbed, Probing, Claiming
  <1>3. claim[h][g] \in Pool[g]
    BY <1>2, SetAssumption DEF LocalInv, ProbingListens, InPool
  <1>4. filter[h] \in SUBSET OptAddr
    BY <1>0, Zenon DEF TypeOK
  <1>5. \A i \in Group \ {g} : Probing(h, i) => claim[h][i] \in filter[h]
    BY DEF LocalInv, ProbingListens
  <1> QED
    BY <1>0, <1>1, <1>2, <1>3, <1>4, <1>5, ProcKept, AllStarted, ClaimGroup,
       GroupType, Zenon

(* ... arp_announce1, which announces an address in use ...                *)
LEMMA AnnounceTimeoutKeeps ==
  ASSUME LocalInv, GlobalInv, TypeInv',
         NEW h \in Host, NEW g \in Group, Announce1Timeout(h, g)
  PROVE  LocalInv' /\ GlobalInv' /\ AddressStep
  <1>0. TypeOK /\ TypeOK'
    BY Zenon DEF LocalInv, TypeInv
  <1>1. /\ proc[h] = Running /\ cb[h][g] = "arp_announce1"
        /\ arp_announce1(h, g)
        /\ UNCHANGED <<link, ifaddrs, claims, proc, fd, filter, last, claim,
                       held>>
    BY Zenon DEF Announce1Timeout, Due, kernel, llg
  <1>2. /\ held[h][g] # INADDR_ANY /\ held[h][g] = claim[h][g]
        /\ claim[h][g] \in ifaddrs[h]
    BY <1>1, Zenon DEF LocalInv, AnnouncesHeld
  <1>3. claim[h][g] \in Addr /\ claim[h][g] \in Pool[g]
    BY <1>0, <1>2, Zenon DEF LocalInv, InPool, TypeOK, OptAddr
  <1>4. /\ cb'[h][g] = "arp_announce1" /\ OthersKept(h, g)
        /\ rx' \in [Host -> Seq(Frame)]
        /\ TryRequest(rx, h, [kind |-> "claim", addr |-> claim'[h][g]])
    BY <1>0, <1>1, <1>3, Announce1Facts, Zenon
  <1>5. \A k \in Host, i \in Group : k # h \/ i # g =>
          SameClaim(k, i) /\ SameGroup(k, i)
    BY <1>1, <1>4, Zenon DEF OthersKept, SameClaim, SameGroup
  <1>6. GroupStep(h, g)
    BY <1>0, <1>1, <1>5, ProcKept, Zenon
    DEF GroupStep, LocalInv, ProbingListens
  <1>7. GroupEnds(h, g)
    <2>1. ~Probing(h, g)' /\ ~Claiming(h, g)'
      BY <1>4, Zenon DEF Probing, Claiming
    <2>2. last[h][g] \in Pool[g] \cup {INADDR_ANY}
      BY Zenon DEF LocalInv, InPool
    <2> QED
      BY <1>1, <1>2, <1>3, <2>1, <2>2, AllStarted, Zenon DEF GroupEnds
  <1>8. rx \in [Host -> Seq(Frame)]
    BY <1>0 DEF TypeOK
  <1>9. [kind |-> "claim", addr |-> claim[h][g]] \in Frame
    BY <1>3, Zenon DEF Frame
  <1>10. \/ Sent(rx, h, [kind |-> "claim", addr |-> claim[h][g]])
         \/ rx' = rx
    BY <1>1, <1>4, <1>8, <1>9, TryRequestSent, Zenon
  <1>11. \A i \in Group : cb'[h][i] \in ProbingCb =>
           SameFate(h, i, rx) /\ claim[h][i] # claim[h][g]
    <2>1. \A i \in Group \ {g} : claim[h][i] # claim[h][g]
      BY <1>3, OtherPool, Zenon DEF LocalInv
    <2> QED
      BY <1>4, <1>5, <2>1, Zenon DEF ProbingCb, SameFate
  <1>12. CASE Sent(rx, h, [kind |-> "claim", addr |-> claim[h][g]])
    <2>1. ifaddrs' = [ifaddrs EXCEPT ![h] = @ \cup {claim[h][g]}]
      BY <1>0, <1>1, <1>2, Zenon DEF TypeOK
    <2>2. ClaimStep(h, claim[h][g], rx)
      BY <1>2, <1>5, <1>11, <1>12, <2>1, Zenon DEF ClaimStep
    <2> QED
      BY <1>0, <1>1, <1>3, <1>6, <1>7, <1>8, <2>2, LocalGroup,
         ClaimKeeps, Zenon
      DEF AddressStep
  <1>13. CASE rx' = rx
    <2>1. QuietStep(h)
      BY <1>1, <1>4, <1>5, <1>11, <1>13, Zenon DEF QuietStep, SameFate
    <2> QED
      BY <1>0, <1>1, <1>6, <1>7, <2>1, LocalGroup, QuietKeeps, Zenon
      DEF AddressStep
  <1> QED
    BY <1>10, <1>12, <1>13

(* ... and the end of a daemon or of its unit.                             *)
LEMMA FaultKeeps ==
  ASSUME LocalInv, GlobalInv, TypeInv',
         NEW h \in Host, UnitFault(h)
  PROVE  LocalInv' /\ GlobalInv' /\ AddressStep
  <1>0. TypeOK /\ TypeOK'
    BY DEF LocalInv, TypeInv
  <1>1. ProcessEnds(h) /\ UNCHANGED <<link, claims>>
    BY DEF UnitFault, Crash, ipv4llg_drop, Reboot
  <1>2. \E S \in SUBSET ifaddrs[h] : ifaddrs' = [ifaddrs EXCEPT ![h] = @ \ S]
    <2>1. CASE Crash(h)
      <3>1. ifaddrs' = [ifaddrs EXCEPT ![h] = @ \ {}]
        BY <1>0, <2>1 DEF Crash, TypeOK
      <3> QED
        BY <3>1, Zenon
    <2>2. CASE ipv4llg_drop(h)
      <3> DEFINE H == {held[h][g] : g \in Group}
      <3>1. ifaddrs' = [ifaddrs EXCEPT ![h] = @ \ (H \cap ifaddrs[h])]
        <4>1. ifaddrs' = [ifaddrs EXCEPT ![h] = @ \ H]
          BY <2>2 DEF ipv4llg_drop
        <4> HIDE DEF H
        <4>2. ifaddrs[h] \ H = ifaddrs[h] \ (H \cap ifaddrs[h])
          OBVIOUS
        <4> QED
          BY <4>1, <4>2, Zenon
      <3> QED
        BY <3>1, Zenon
    <2>3. CASE Reboot(h)
      <3>1. ifaddrs[h] \ ifaddrs[h] = {}
        OBVIOUS
      <3>2. ifaddrs' = [ifaddrs EXCEPT ![h] = @ \ ifaddrs[h]]
        BY <2>3, <3>1, Zenon DEF Reboot
      <3> QED
        BY <3>2, Zenon
    <2> QED
      BY <2>1, <2>2, <2>3 DEF UnitFault
  <1> QED
    BY <1>0, <1>1, <1>2, EndsKeeps, Zenon

(* Every step of a connected network keeps the invariant, and takes only   *)
(* addresses that nobody has.                                              *)
LEMMA UniqueNext ==
  ASSUME Reliable
  PROVE  UniqueInv /\ [ConnectedNext]_vars => UniqueInv' /\ AddressStep
  <1> SUFFICES ASSUME LocalInv, GlobalInv, [ConnectedNext]_vars
               PROVE  LocalInv' /\ GlobalInv' /\ AddressStep
    BY DEF UniqueInv
  <1>1. TypeOK /\ TypeInv'
    BY TypeNext DEF LocalInv, TypeInv, Next
  <1>2. ASSUME NEW h \in Host, DaemonStep(h)
        PROVE  LocalInv' /\ GlobalInv' /\ AddressStep
    BY <1>1, <1>2, StartKeeps, StartOneKeeps, ProbeTimeoutKeeps,
       Probe1TimeoutKeeps, ProbedTimeoutKeeps, AnnounceTimeoutKeeps, ReadKeeps,
       Zenon
    DEF DaemonStep
  <1>3. CASE Tick
    <2>1. UNCHANGED <<link, ifaddrs, claims, fd, filter, claim, cb, held, proc,
                      last>>
      BY <1>3 DEF Tick, sock
    <2>2. LocalInv'
      BY <1>1, <2>1, ProcKept, LocalSame, Zenon
    <2> QED
      BY <1>3, <2>1, <2>2, TickKeeps, Zenon DEF AddressStep
  <1>4. CASE UNCHANGED vars
    <2>1. /\ UNCHANGED <<link, ifaddrs, claims, fd, filter, claim, cb, held,
                         proc, last>>
          /\ UNCHANGED <<rx, left>>
      BY <1>4 DEF vars
    <2>2. LocalInv'
      BY <1>1, <2>1, ProcKept, LocalSame, Zenon
    <2>3. GlobalInv'
      BY <2>1, NothingKeeps
    <2> QED
      BY <2>1, <2>2, <2>3, Zenon DEF AddressStep
  <1>5. \A h \in Host : ~arp_read_error(h)
    BY DEF arp_read_error, Reliable
  <1> QED
    BY <1>1, <1>2, <1>3, <1>4, <1>5, FaultKeeps, Zenon DEF ConnectedNext

-----------------------------------------------------------------------------
(* The theorems.                                                           *)

(* No two units have the same address, for any number of units and groups, *)
(* any ranges and any timing constants, however the timers, the frames and *)
(* the failures and restarts of daemons and units interleave: what         *)
(* arp_probe, arp_probe1 and ipv4llg_conflicted do is enough while frames  *)
(* are sent and read and the filter has room for every group.              *)
THEOREM AddressesUnique ==
  ASSUME Reliable
  PROVE  ConnectedSpec => []Unique
  <1>1. UniqueInv /\ [ConnectedNext]_vars => UniqueInv'
    BY UniqueNext
  <1>2. UniqueInv => Unique
    BY DEF UniqueInv, GlobalInv
  <1> QED
    BY <1>1, <1>2, UniqueInit, PTL DEF ConnectedSpec

(* The inductive invariant itself, as the run checks it. *)
THEOREM InvariantHolds ==
  ASSUME Reliable
  PROVE  ConnectedSpec => []UniqueInv
  <1>1. UniqueInv /\ [ConnectedNext]_vars => UniqueInv'
    BY UniqueNext
  <1> QED
    BY <1>1, UniqueInit, PTL DEF ConnectedSpec

(* ipv4llg_conflicted never takes an address from a unit of a connected    *)
(* network: an address goes only when the daemon or the unit stops.        *)
THEOREM AddressesKept ==
  ASSUME Reliable
  PROVE  ConnectedSpec => NeverTakenAway
  <1> DEFINE Keeps == \A h \in Host :
                        ifaddrs[h] \subseteq ifaddrs'[h] \/ proc'[h] = 0
  <1>1. UniqueInv /\ [ConnectedNext]_vars => [Keeps]_vars
    <2> SUFFICES ASSUME UniqueInv, [ConnectedNext]_vars PROVE Keeps
      BY ZenonT(30)
    <2>1. AddressStep /\ ifaddrs \in [Host -> SUBSET Addr]
      BY UniqueNext, Zenon DEF UniqueInv, LocalInv, TypeInv, TypeOK
    <2> QED
      BY <2>1 DEF AddressStep, Abstract!Acquire, Abstract!Release
  <1> QED
    BY <1>1, InvariantHolds, PTL DEF ConnectedSpec, NeverTakenAway

(* The daemons implement address claiming: a unit takes an address only    *)
(* while no unit has it.                                                   *)
THEOREM ClaimsImplemented ==
  ASSUME Reliable
  PROVE  ConnectedSpec => ClaimsOnlyFree
  <1>1. Init => Abstract!AInit
    BY DEF Init, Abstract!AInit
  <1>2. UniqueInv /\ [ConnectedNext]_vars => [Abstract!ANext]_ifaddrs
    BY UniqueNext DEF AddressStep, Abstract!ANext
  <1> QED
    BY <1>1, <1>2, InvariantHolds, PTL
    DEF ConnectedSpec, ClaimsOnlyFree, Abstract!ASpec
=============================================================================
