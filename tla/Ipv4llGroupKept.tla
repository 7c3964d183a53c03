-------------------------- MODULE Ipv4llGroupKept ---------------------------
(* What a daemon knows of the addresses of its unit agrees with what the   *)
(* kernel has, whichever calls fail, cables are pulled, and daemons and    *)
(* units stop and restart; and the socket of a daemon lets through the     *)
(* frames that contest its addresses.                                      *)
EXTENDS Ipv4llGroupTypes

-----------------------------------------------------------------------------
(* Steps of one group.                                                     *)

Untouched(k, i) ==
  /\ cb'[k][i] = cb[k][i] /\ claim'[k][i] = claim[k][i]
  /\ held'[k][i] = held[k][i] /\ last'[k][i] = last[k][i]

(* A step of group g of h leaves the other groups, and their addresses,    *)
(* alone.                                                                  *)
OwnStep(h, g) ==
  /\ TypeInv'
  /\ \A k \in Host, i \in Group : k # h \/ i # g => Untouched(k, i)
  /\ claims' = claims \/ claims' = [claims EXCEPT ![h] = held'[h]]
  /\ \A k \in Host \ {h} : proc'[k] = proc[k] /\ ifaddrs'[k] = ifaddrs[k]
  /\ \A i \in Group \ {g} : i < proc'[h] <=> i < proc[h]
  /\ \A a \in Addr \ Pool[g] : a \in ifaddrs'[h] <=> a \in ifaddrs[h]

(* Where it leaves group g. *)
OwnEnds(h, g) ==
  /\ {last'[h][g], claim'[h][g], held'[h][g]} \subseteq Pool[g] \cup {INADDR_ANY}
  /\ g < proc'[h]
  /\ ifaddrs'[h] \cap Pool[g] \subseteq {held'[h][g]}
  /\ held'[h][g] # INADDR_ANY =>
       /\ held'[h][g] = claim'[h][g] /\ held'[h][g] \in ifaddrs'[h]
       /\ cb'[h][g] \in {"arp_announce1", "none"}
       /\ cb'[h][g] = "none" => "open" \in Faults
  /\ cb'[h][g] = "arp_announce1" => held'[h][g] # INADDR_ANY
  /\ Claiming(h, g)' => claim'[h][g] \notin ifaddrs'[h]

(* Such a step keeps the invariant. *)
LEMMA OwnKeeps ==
  ASSUME KeptInv, NEW h \in Host, NEW g \in Group, OwnStep(h, g), OwnEnds(h, g)
  PROVE  KeptInv'
  <1>1. TypeInv' /\ TypeOK
    BY DEF OwnStep, KeptInv, TypeInv
  <1>2. InPool'
    <2>1. ASSUME NEW k \in Host, NEW i \in Group
          PROVE  {last'[k][i], claim'[k][i], held'[k][i]}
                    \subseteq Pool[i] \cup {INADDR_ANY}
      BY DEF OwnStep, OwnEnds, KeptInv, InPool, Untouched
    <2>2. ASSUME NEW k \in Host, NEW i \in Group
          PROVE  claims'[k][i] \in Pool[i] \cup {INADDR_ANY}
      BY <1>1, <2>1, Zenon DEF OwnStep, KeptInv, InPool, TypeOK
    <2> QED
      BY <2>1, <2>2 DEF InPool
  <1>3. ASSUME NEW k \in Host, NEW i \in Group, k # h \/ i # g
        PROVE  /\ Untouched(k, i) /\ (i < proc'[k] <=> i < proc[k])
               /\ ifaddrs'[k] \cap Pool[i] = ifaddrs[k] \cap Pool[i]
    <2>1. Untouched(k, i) /\ (i < proc'[k] <=> i < proc[k])
      BY <1>3 DEF OwnStep
    <2>2. ifaddrs'[k] \cap Pool[i] = ifaddrs[k] \cap Pool[i]
      BY <1>1, <1>3, SetAssumption, Zenon DEF OwnStep, TypeOK
    <2> QED
      BY <2>1, <2>2
  <1>4. OneAddressPerGroup'
    <2> SUFFICES ASSUME NEW k \in Host, NEW i \in Group
                 PROVE  /\ \A a, b \in ifaddrs'[k] \cap Pool[i] : a = b
                        /\ i < proc'[k] =>
                             ifaddrs'[k] \cap Pool[i] \subseteq {held'[k][i]}
      BY DEF OneAddressPerGroup
    <2>1. CASE k = h /\ i = g
      BY <2>1 DEF OwnEnds
    <2>2. CASE k # h \/ i # g
      <3>1. /\ held'[k][i] = held[k][i] /\ (i < proc'[k] <=> i < proc[k])
            /\ ifaddrs'[k] \cap Pool[i] = ifaddrs[k] \cap Pool[i]
        BY <1>3, <2>2 DEF Untouched
      <3> QED
        BY <3>1 DEF KeptInv, OneAddressPerGroup
    <2> QED
      BY <2>1, <2>2
  <1>5. HeldIsWatched'
    <2> SUFFICES ASSUME NEW k \in Host, NEW i \in Group,
                        held'[k][i] # INADDR_ANY
                 PROVE  /\ held'[k][i] = claim'[k][i]
                        /\ held'[k][i] \in ifaddrs'[k]
                        /\ cb'[k][i] \in {"arp_announce1", "none"}
                        /\ cb'[k][i] = "none" => "open" \in Faults
      BY DEF HeldIsWatched
    <2>1. CASE k = h /\ i = g
      BY <2>1 DEF OwnEnds
    <2>2. CASE k # h \/ i # g
      <3>1. /\ Untouched(k, i)
            /\ ifaddrs'[k] \cap Pool[i] = ifaddrs[k] \cap Pool[i]
        BY <1>3, <2>2
      <3>2. held[k][i] \in Pool[i]
        BY <3>1 DEF KeptInv, InPool, Untouched
      <3> QED
        BY <3>1, <3>2 DEF KeptInv, HeldIsWatched, Untouched
    <2> QED
      BY <2>1, <2>2
  <1>6. Staged'
    <2> SUFFICES ASSUME NEW k \in Host, NEW i \in Group
                 PROVE  /\ cb'[k][i] # "none" \/ held'[k][i] # INADDR_ANY =>
                             i < proc'[k]
                        /\ cb'[k][i] = "arp_announce1" =>
                             held'[k][i] # INADDR_ANY
                        /\ Claiming(k, i)' => claim'[k][i] \notin ifaddrs'[k]
      BY DEF Staged
    <2>1. CASE k = h /\ i = g
      BY <2>1 DEF OwnEnds
    <2>2. CASE k # h \/ i # g
      <3>1. /\ Untouched(k, i) /\ (i < proc'[k] <=> i < proc[k])
            /\ ifaddrs'[k] \cap Pool[i] = ifaddrs[k] \cap Pool[i]
        BY <1>3, <2>2
      <3>2. ifaddrs'[k] \subseteq Addr /\ INADDR_ANY \notin Addr
        BY <1>1, SetAssumption DEF TypeInv, TypeOK
      <3>3. claim[k][i] \in Pool[i] \cup {INADDR_ANY}
        BY DEF KeptInv, InPool
      <3>4. Claiming(k, i)' <=> Claiming(k, i)
        BY <3>1 DEF Untouched, Claiming, Probing
      <3> QED
        BY <3>1, <3>2, <3>3, <3>4 DEF KeptInv, Staged, Untouched
    <2> QED
      BY <2>1, <2>2
  <1> QED
    BY <1>1, <1>2, <1>4, <1>5, <1>6 DEF KeptInv

(* A step that changes no address, claim or timeout keeps the invariant. *)
LEMMA SameKeeps ==
  ASSUME KeptInv, TypeInv',
         UNCHANGED <<ifaddrs, claims, claim, cb, held>>,
         \A k \in Host, i \in Group : i < proc[k] => i < proc'[k],
         \A k \in Host, i \in Group :
           i < proc'[k] /\ ~(i < proc[k]) => ifaddrs[k] \cap Pool[i] = {},
         \A k \in Host, i \in Group : last'[k][i] \in {last[k][i], claims[k][i]}
  PROVE  KeptInv'
  <1>1. InPool'
    BY DEF KeptInv, InPool
  <1>2. OneAddressPerGroup'
    BY DEF KeptInv, OneAddressPerGroup
  <1>3. HeldIsWatched'
    BY DEF KeptInv, HeldIsWatched
  <1>4. Staged'
    BY DEF KeptInv, Staged, Claiming, Probing
  <1> QED
    BY <1>1, <1>2, <1>3, <1>4, Zenon DEF KeptInv

(* A claim that is being probed for, or about to be, is the group's only   *)
(* concern: its unit has no address of the group.                          *)
LEMMA ClaimingFacts ==
  ASSUME KeptInv, NEW h \in Host, NEW g \in Group, Claiming(h, g)
  PROVE  /\ held[h][g] = INADDR_ANY /\ ifaddrs[h] \cap Pool[g] = {}
         /\ claim[h][g] \in Pool[g] /\ claim[h][g] \in Addr
  <1>1. cb[h][g] \notin {"arp_announce1", "none"}
    BY DEF Claiming, Probing
  <1>2. held[h][g] = INADDR_ANY
    BY <1>1 DEF KeptInv, HeldIsWatched
  <1>3. ifaddrs[h] \cap Pool[g] \subseteq {INADDR_ANY}
    BY <1>1, <1>2, Zenon DEF KeptInv, Staged, OneAddressPerGroup
  <1>4. claim[h][g] \in Addr /\ ifaddrs[h] \subseteq Addr
    BY <1>1 DEF KeptInv, TypeInv, TimedClaim, TypeOK
  <1>5. claim[h][g] \in Pool[g]
    BY <1>4, SetAssumption DEF KeptInv, InPool
  <1> QED
    BY <1>2, <1>3, <1>4, <1>5, SetAssumption

(* An address in use is left without a timeout only when opening the       *)
(* socket may fail.                                                        *)
LEMMA ProbedOpen ==
  ASSUME TypeOK, NEW h \in Host, NEW g \in Group, NEW states, NEW flt,
         ipv4llg_probed(h, g, states, flt), cb'[h][g] = "none", held' # held
  PROVE  "open" \in Faults
  <1>1. arp_announce(h, g, states, flt)
    BY Zenon DEF ipv4llg_probed
  <1>2. PICK open \in Outcome("open") :
          IF fd[h] \/ open
          THEN /\ fd' = [fd EXCEPT ![h] = TRUE]
               /\ filter' = [filter EXCEPT ![h] = IF fd[h] THEN flt
                                                  ELSE bpf_arp(claim'[h], states)]
               /\ arp_announce1(h, g)
          ELSE NoTimer(h, g) /\ UNCHANGED <<fd, filter, rx>>
    BY <1>1, Zenon DEF arp_announce
  <1>3. ~arp_announce1(h, g)
    <2> SUFFICES ASSUME arp_announce1(h, g) PROVE FALSE
      OBVIOUS
    <2>1. cb' = [cb EXCEPT ![h][g] = "arp_announce1"]
      BY DEF arp_announce1, SetTimer
    <2>2. cb'[h][g] = "arp_announce1"
      BY <2>1 DEF TypeOK
    <2> QED
      BY <2>2
  <1>4. ~open
    BY <1>2, <1>3, Zenon
  <1> QED
    BY <1>2, <1>4, Zenon DEF Outcome

(* arp_probe, for a unit without an address of the group. *)
LEMMA ProbeOwn ==
  ASSUME KeptInv, TypeInv', NEW h \in Host, NEW g \in Group,
         NEW states \in Group, arp_probe(h, g, states),
         UNCHANGED <<ifaddrs, held, claims>>,
         \A k \in Host, i \in Group : k # h \/ i # g =>
           claim'[k][i] = claim[k][i] /\ last'[k][i] = last[k][i],
         last'[h][g] \in Pool[g] \cup {INADDR_ANY},
         claim'[h][g] \in Pool[g],
         held[h][g] = INADDR_ANY, ifaddrs[h] \cap Pool[g] = {},
         \A k \in Host \ {h} : proc'[k] = proc[k],
         g < proc'[h], \A i \in Group \ {g} : i < proc'[h] <=> i < proc[h]
  PROVE  KeptInv'
  <1>1. /\ TypeOK /\ claim'[h][g] \in Addr
        /\ claim' \in [Host -> [Group -> OptAddr]]
    <2>1. TypeOK /\ claim' \in [Host -> [Group -> OptAddr]]
      BY Zenon DEF KeptInv, TypeInv, TypeOK
    <2>2. claim'[h][g] \in Addr
      BY SetAssumption
    <2> QED
      BY <2>1, <2>2
  <1>2. /\ OthersKept(h, g)
        /\ cb'[h][g] \in {"arp_probe1", "arp_probed", "none"}
    BY <1>1, ProbeFacts, Zenon
  <1>3. OwnStep(h, g)
    BY <1>2 DEF OwnStep, OthersKept, Untouched
  <1>4. OwnEnds(h, g)
    BY <1>2 DEF OwnEnds
  <1> QED
    BY <1>3, <1>4, OwnKeeps

(* ipv4llg_probed, for a claim that is the only address of the group that  *)
(* the unit has or will have.                                              *)
LEMMA ProbedOwn ==
  ASSUME KeptInv, TypeInv', NEW h \in Host, NEW g \in Group,
         NEW states \in Group, NEW flt \in SUBSET OptAddr,
         ipv4llg_probed(h, g, states, flt), UNCHANGED last,
         \A k \in Host, i \in Group : k # h \/ i # g =>
           claim'[k][i] = claim[k][i],
         claim'[h][g] \in Pool[g],
         ifaddrs[h] \cap Pool[g] \subseteq {claim'[h][g]},
         held[h][g] = INADDR_ANY,
         \A k \in Host \ {h} : proc'[k] = proc[k],
         g < proc'[h], \A i \in Group \ {g} : i < proc'[h] <=> i < proc[h]
  PROVE  KeptInv'
  <1> DEFINE a == claim'[h][g]
  <1>1. /\ TypeOK /\ a \in Addr
        /\ claim' \in [Host -> [Group -> OptAddr]]
    <2>1. TypeOK /\ claim' \in [Host -> [Group -> OptAddr]]
      BY Zenon DEF KeptInv, TypeInv, TypeOK
    <2>2. a \in Addr
      BY SetAssumption, Zenon
    <2> QED
      BY <2>1, <2>2, Zenon
  <1>2. /\ claims' = claims \/ claims' = [claims EXCEPT ![h] = held'[h]]
        /\ OthersKept(h, g)
        /\ \/ /\ ifaddrs' = [ifaddrs EXCEPT ![h] = @ \cup {a}]
              /\ held' = [held EXCEPT ![h][g] = a]
              /\ cb'[h][g] \in {"arp_announce1", "none"}
           \/ /\ cb'[h][g] = "none" /\ a \notin ifaddrs[h]
              /\ UNCHANGED <<ifaddrs, held>>
    <2>1. \/ /\ ifaddrs' = [ifaddrs EXCEPT ![h] = @ \cup {claim'[h][g]}]
             /\ held' = [held EXCEPT ![h][g] = claim'[h][g]]
             /\ \/ /\ fd'[h]
                   /\ filter'[h] = IF fd[h] THEN flt
                                   ELSE bpf_arp(claim'[h], states)
                   /\ cb'[h][g] = "arp_announce1"
                   /\ TryRequest(rx, h,
                                 [kind |-> "claim", addr |-> claim'[h][g]])
                \/ /\ cb'[h][g] = "none" /\ ~fd[h]
                   /\ UNCHANGED <<fd, filter, rx>>
          \/ /\ cb'[h][g] = "none" /\ filter'[h] = flt
             /\ claim'[h][g] \notin ifaddrs[h]
             /\ UNCHANGED <<ifaddrs, held, fd, rx>>
      BY <1>1, ProbedFacts, Zenon
    <2>2. /\ claims' = claims \/ claims' = [claims EXCEPT ![h] = held'[h]]
          /\ OthersKept(h, g)
      BY <1>1, ProbedFacts, Zenon
    <2> QED
      BY <2>1, <2>2
  <1>3. cb'[h][g] = "none" /\ held' # held => "open" \in Faults
    BY <1>1, ProbedOpen, Zenon
  <1>4. last[h][g] \in Pool[g] \cup {INADDR_ANY} /\ a # INADDR_ANY
    BY <1>1, SetAssumption, Zenon DEF KeptInv, InPool
  <1>5. CASE /\ ifaddrs' = [ifaddrs EXCEPT ![h] = @ \cup {a}]
             /\ held' = [held EXCEPT ![h][g] = a]
             /\ cb'[h][g] \in {"arp_announce1", "none"}
    <2>1. /\ held'[h][g] = a
          /\ \A k \in Host, i \in Group : k # h \/ i # g =>
               held'[k][i] = held[k][i]
      BY <1>1, <1>5, Zenon DEF TypeOK
    <2>2. /\ ifaddrs'[h] = ifaddrs[h] \cup {a}
          /\ \A k \in Host \ {h} : ifaddrs'[k] = ifaddrs[k]
      BY <1>1, <1>5, Zenon DEF TypeOK
    <2>3. OwnStep(h, g)
      BY <1>2, <2>1, <2>2 DEF OwnStep, OthersKept, Untouched
    <2>4. held' # held
      BY <1>4, <2>1
    <2> HIDE DEF a
    <2>5. OwnEnds(h, g)
      <3>1. ~Claiming(h, g)'
        BY <1>5 DEF Claiming, Probing
      <3>2. ifaddrs'[h] \cap Pool[g] \subseteq {a}
        BY <2>2 DEF a
      <3> QED
        BY <1>3, <1>4, <1>5, <2>1, <2>2, <2>4, <3>1, <3>2 DEF OwnEnds, a
    <2> QED
      BY <2>3, <2>5, OwnKeeps
  <1>6. CASE /\ cb'[h][g] = "none" /\ a \notin ifaddrs[h]
             /\ UNCHANGED <<ifaddrs, held>>
    <2>1. OwnStep(h, g)
      BY <1>2, <1>6, Zenon DEF OwnStep, OthersKept, Untouched
    <2>2. OwnEnds(h, g)
      BY <1>4, <1>6, Zenon DEF OwnEnds, Claiming, Probing
    <2> QED
      BY <2>1, <2>2, OwnKeeps, Zenon
  <1> QED
    BY <1>2, <1>5, <1>6

-----------------------------------------------------------------------------
(* The steps.                                                              *)

LEMMA NotBelow == \A i \in Group : ~(i < i)
  BY GroupType

(* ipv4llg_start_one uses the one address of the group that the unit has,  *)
(* or probes for one that it has not.                                      *)
LEMMA StartOneOwn ==
  ASSUME KeptInv, TypeInv', NEW h \in Host, ipv4llg_start_one(h)
  PROVE  KeptInv'
  <1> DEFINE g == proc[h]
             flt == IF fd[h] THEN bpf_arp(claim[h], g) ELSE filter[h]
  <1>1. TypeOK /\ g \in Group
    BY Zenon DEF KeptInv, TypeInv, ipv4llg_start_one
  <1>2. g \in Nat /\ proc'[h] = g + 1 /\ \A k \in Host \ {h} : proc'[k] = proc[k]
    BY <1>1, GroupType, Zenon DEF ipv4llg_start_one, TypeOK
  <1>3. g < proc'[h] /\ \A i \in Group \ {g} : i < proc'[h] <=> i < proc[h]
    BY <1>2, GroupType
  <1>4. flt \in SUBSET OptAddr
    BY <1>1, FilterType, Zenon DEF TypeOK
  <1>5. held[h][g] = INADDR_ANY
    BY <1>1, NotBelow, Zenon DEF KeptInv, Staged
  <1> HIDE DEF flt
  <1>6. CASE /\ \E a \in ifaddrs[h] \cap Pool[g] :
                  claim' = [claim EXCEPT ![h][g] = a]
             /\ ipv4llg_probed(h, g, g, flt)
             /\ UNCHANGED last
    <2>1. /\ claim'[h][g] \in Pool[g] /\ claim'[h][g] \in ifaddrs[h]
          /\ \A k \in Host, i \in Group : k # h \/ i # g =>
               claim'[k][i] = claim[k][i]
      BY <1>1, <1>6 DEF TypeOK
    <2>2. ifaddrs[h] \cap Pool[g] \subseteq {claim'[h][g]}
      BY <1>1, <2>1 DEF KeptInv, OneAddressPerGroup
    <2> QED
      BY <1>1, <1>2, <1>3, <1>4, <1>5, <1>6, <2>1, <2>2, ProbedOwn, Zenon
  <1>7. CASE /\ ifaddrs[h] \cap Pool[g] = {}
             /\ \E a \in ipv4llg_pickaddr(h, g, ifaddrs[h]) :
                  claim' = [claim EXCEPT ![h][g] = a]
             /\ last' = [last EXCEPT ![h][g] = INADDR_ANY]
             /\ arp_probe(h, g, g)
             /\ UNCHANGED <<ifaddrs, held, claims>>
    <2>1. PICK a \in ipv4llg_pickaddr(h, g, ifaddrs[h]) :
            claim' = [claim EXCEPT ![h][g] = a]
      BY <1>7, Zenon
    <2>2. a \in Pool[g]
      BY <1>1, PickPool, Zenon DEF KeptInv
    <2>3. /\ claim'[h][g] \in Pool[g]
          /\ \A k \in Host, i \in Group : k # h \/ i # g =>
               claim'[k][i] = claim[k][i]
      BY <1>1, <2>1, <2>2, Zenon DEF TypeOK
    <2>4. /\ last'[h][g] = INADDR_ANY
          /\ \A k \in Host, i \in Group : k # h \/ i # g =>
               last'[k][i] = last[k][i]
      BY <1>1, <1>7 DEF TypeOK
    <2> QED
      BY <1>1, <1>2, <1>3, <1>5, <1>7, <2>3, <2>4, ProbeOwn
  <1> QED
    BY <1>6, <1>7 DEF ipv4llg_start_one, flt

(* A group of a running daemon is started, and stays so. *)
LEMMA StaysStarted ==
  ASSUME NEW h \in Host, proc[h] = Running, UNCHANGED proc
  PROVE  /\ \A k \in Host \ {h} : proc'[k] = proc[k]
         /\ \A i \in Group : i < proc'[h] /\ (i < proc'[h] <=> i < proc[h])
  BY AllStarted, Zenon

(* The callbacks of the timeouts. *)
LEMMA TimeoutOwn ==
  ASSUME KeptInv, TypeInv', NEW h \in Host, NEW g \in Group,
         \/ ProbeTimeout(h, g) \/ Probe1Timeout(h, g)
         \/ ProbedTimeout(h, g) \/ Announce1Timeout(h, g)
  PROVE  KeptInv'
  <1>1. TypeOK /\ NGroups \in Group
    BY GroupType DEF KeptInv, TypeInv
  <1>2. last[h][g] \in Pool[g] \cup {INADDR_ANY}
    BY DEF KeptInv, InPool
  <1>3. CASE ProbeTimeout(h, g)
    <2>1. /\ proc[h] = Running /\ Claiming(h, g) /\ arp_probe(h, g, NGroups)
          /\ UNCHANGED <<ifaddrs, claims, proc, last, claim, held>>
      BY <1>3 DEF ProbeTimeout, Due, Claiming, kernel, llg
    <2> QED
      BY <1>1, <1>2, <2>1, ClaimingFacts, StaysStarted, ProbeOwn, ZenonT(30)
  <1>4. CASE Probe1Timeout(h, g)
    <2>1. /\ proc[h] = Running /\ Claiming(h, g) /\ cb[h][g] = "arp_probe1"
          /\ arp_probe1(h, g, probes[h][g])
          /\ UNCHANGED <<ifaddrs, claims, proc, last, claim, held>>
      BY <1>4 DEF Probe1Timeout, Due, Claiming, Probing, kernel, llg
    <2>2. /\ held[h][g] = INADDR_ANY /\ ifaddrs[h] \cap Pool[g] = {}
          /\ claim[h][g] \in Pool[g] /\ claim[h][g] \in Addr
      BY <2>1, ClaimingFacts, Zenon
    <2>3. probes[h][g] \in Nat /\ probes[h][g] < PROBE_NUM
      <3>1. probes[h][g] \in 0..PROBE_NUM
        BY <1>1, Zenon DEF TypeOK
      <3>2. probes[h][g] < PROBE_NUM
        BY <2>1, Zenon DEF KeptInv, TypeInv, TimedClaim
      <3> QED
        BY <3>1, <3>2, TimeAssumption
    <2>4. OthersKept(h, g) /\ cb'[h][g] \in {"arp_probe1", "arp_probed"}
      BY <1>1, <2>1, <2>2, <2>3, Probe1Facts, Zenon
    <2>5. OwnStep(h, g)
      BY <2>1, <2>4, StaysStarted, Zenon DEF OwnStep, OthersKept, Untouched
    <2>6. OwnEnds(h, g)
      BY <1>2, <2>1, <2>2, <2>4, StaysStarted DEF OwnEnds
    <2> QED
      BY <2>5, <2>6, OwnKeeps, Zenon
  <1>5. CASE ProbedTimeout(h, g)
    <2>1. /\ proc[h] = Running /\ Claiming(h, g)
          /\ ipv4llg_probed(h, g, NGroups, filter[h])
          /\ UNCHANGED <<proc, last, claim>>
      BY <1>5 DEF ProbedTimeout, Due, Claiming, Probing
    <2>2. /\ held[h][g] = INADDR_ANY
          /\ ifaddrs[h] \cap Pool[g] \subseteq {claim[h][g]}
          /\ claim[h][g] \in Pool[g]
      BY <2>1, ClaimingFacts, Zenon
    <2>3. filter[h] \in SUBSET OptAddr
      BY <1>1, Zenon DEF TypeOK
    <2> QED
      BY <1>1, <2>1, <2>2, <2>3, StaysStarted, ProbedOwn, ZenonT(30)
  <1>6. CASE Announce1Timeout(h, g)
    <2>1. /\ proc[h] = Running /\ cb[h][g] = "arp_announce1"
          /\ arp_announce1(h, g)
          /\ UNCHANGED <<ifaddrs, claims, proc, last, claim, held>>
      BY <1>6, Zenon DEF Announce1Timeout, Due, kernel, llg
    <2>2. claim[h][g] \in Addr
      BY <2>1 DEF KeptInv, TypeInv, TimedClaim
    <2>3. OthersKept(h, g) /\ cb'[h][g] = "arp_announce1"
      BY <1>1, <2>1, <2>2, Announce1Facts, Zenon
    <2>4. OthersKept(h, g) /\ cb'[h][g] = cb[h][g]
      BY <2>1, <2>3
    <2>5. OwnStep(h, g)
      BY <2>1, <2>3, StaysStarted, Zenon DEF OwnStep, OthersKept, Untouched
    <2>6. /\ held[h][g] # INADDR_ANY /\ held[h][g] = claim[h][g]
          /\ held[h][g] \in ifaddrs[h]
      BY <2>1 DEF KeptInv, Staged, HeldIsWatched
    <2>7. g < proc[h] /\ ifaddrs[h] \cap Pool[g] \subseteq {held[h][g]}
      BY <2>1, AllStarted, Zenon DEF KeptInv, OneAddressPerGroup
    <2>8. {claim[h][g], held[h][g]} \subseteq Pool[g] \cup {INADDR_ANY}
      BY Zenon DEF KeptInv, InPool
    <2>9. ~Claiming(h, g)'
      BY <2>3, Zenon DEF Claiming, Probing
    <2>10. OwnEnds(h, g)
      BY <1>2, <2>1, <2>3, <2>6, <2>7, <2>8, <2>9, Zenon DEF OwnEnds
    <2> QED
      BY <2>5, <2>10, OwnKeeps, Zenon
  <1> QED
    BY <1>3, <1>4, <1>5, <1>6

(* The end of ipv4llg_conflicted, for a unit that is left without an       *)
(* address of the group.                                                   *)
LEMMA RepickOwn ==
  ASSUME KeptInv, TypeInv', NEW h \in Host, NEW g \in Group, Repick(h, g),
         proc[h] = Running, UNCHANGED <<claims, proc>>,
         held'[h][g] = INADDR_ANY, ifaddrs'[h] \cap Pool[g] = {},
         \A k \in Host, i \in Group : k # h \/ i # g =>
           held'[k][i] = held[k][i],
         \A k \in Host \ {h} : ifaddrs'[k] = ifaddrs[k],
         \A a \in Addr \ Pool[g] : a \in ifaddrs'[h] <=> a \in ifaddrs[h]
  PROVE  KeptInv'
  <1>1. TypeOK
    BY DEF KeptInv, TypeInv
  <1>2. /\ claim'[h][g] \in ipv4llg_pickaddr(h, g, ifaddrs'[h])
        /\ cb'[h][g] = "ipv4llg_probe" /\ last'[h][g] = INADDR_ANY
        /\ \A k \in Host, i \in Group : k # h \/ i # g =>
             claim'[k][i] = claim[k][i] /\ last'[k][i] = last[k][i]
        /\ OthersKept(h, g)
    BY <1>1, RepickFacts, Zenon
  <1>3. claim'[h][g] \in Pool[g] /\ claim'[h][g] \notin ifaddrs'[h]
    BY <1>2, PickPool DEF KeptInv
  <1>4. OwnStep(h, g)
    BY <1>2, StaysStarted DEF OwnStep, OthersKept, Untouched
  <1>5. OwnEnds(h, g)
    BY <1>2, <1>3, StaysStarted, Zenon DEF OwnEnds
  <1> QED
    BY <1>4, <1>5, OwnKeeps, Zenon

(* arp_read, with what ipv4llg_conflicted does about the frame. *)
LEMMA ReadOwn ==
  ASSUME KeptInv, TypeInv', NEW h \in Host, arp_read(h)
  PROVE  KeptInv'
  <1> DEFINE f == Head(rx[h])
             rest == [rx EXCEPT ![h] = Tail(@)]
  <1>1. TypeOK /\ proc[h] = Running /\ UNCHANGED <<claims, proc>>
    BY Zenon DEF KeptInv, TypeInv, arp_read
  <1>2. f \in Frame
    BY <1>1, RangeTail DEF TypeOK, arp_read
  <1> HIDE DEF f, rest
  <1>3. CASE UNCHANGED <<ifaddrs, last, claim, cb, held>>
    BY <1>1, <1>3, SameKeeps
  <1>4. ASSUME NEW g \in Group, Fails(h, g, f), ipv4llg_conflicted(h, g, rest)
        PROVE  KeptInv'
    <2>1. claim[h][g] \in Addr
      BY <1>2, <1>4 DEF Fails, Frame
    <2>2. g < proc[h]
      BY <1>1, AllStarted, Zenon
    <2>3. /\ ifaddrs[h] \cap Pool[g] \subseteq {held[h][g]}
          /\ ifaddrs[h] \subseteq Addr
      BY <1>1, <2>2 DEF KeptInv, OneAddressPerGroup, TypeOK
    <2>4. CASE DefendClaim(h, g, rest)
      BY <1>3, <2>4 DEF DefendClaim
    <2>5. CASE LoseClaim(h, g, rest)
      <3>1. /\ held[h][g] = claim[h][g] /\ Repick(h, g)
            /\ ifaddrs' = [ifaddrs EXCEPT ![h] = @ \ {held[h][g]}]
            /\ held' = [held EXCEPT ![h][g] = INADDR_ANY]
        BY <2>5, Zenon DEF LoseClaim
      <3>2. held[h][g] \in Pool[g]
        BY <2>1, <3>1, SetAssumption, Zenon DEF KeptInv, InPool
      <3>3. /\ ifaddrs'[h] = ifaddrs[h] \ {held[h][g]}
            /\ \A k \in Host \ {h} : ifaddrs'[k] = ifaddrs[k]
        BY <1>1, <3>1 DEF TypeOK
      <3>4. /\ held'[h][g] = INADDR_ANY
            /\ \A k \in Host, i \in Group : k # h \/ i # g =>
                 held'[k][i] = held[k][i]
        BY <1>1, <3>1, Zenon DEF TypeOK
      <3>5. /\ ifaddrs'[h] \cap Pool[g] = {}
            /\ \A a \in Addr \ Pool[g] : a \in ifaddrs'[h] <=> a \in ifaddrs[h]
        BY <2>3, <3>2, <3>3
      <3> QED
        BY <1>1, <3>1, <3>3, <3>4, <3>5, RepickOwn, Zenon
    <2>6. CASE AbandonProbe(h, g, rest)
      <3>1. /\ held[h][g] # claim[h][g] /\ Repick(h, g)
            /\ UNCHANGED <<ifaddrs, held>>
        BY <2>6, Zenon DEF AbandonProbe
      <3>2. held[h][g] = INADDR_ANY
        BY <3>1 DEF KeptInv, HeldIsWatched
      <3>3. ifaddrs[h] \cap Pool[g] = {}
        BY <2>3, <3>2, SetAssumption
      <3> QED
        BY <1>1, <3>1, <3>2, <3>3, RepickOwn, Zenon
    <2> QED
      BY <1>4, <2>4, <2>5, <2>6, Zenon DEF ipv4llg_conflicted
  <1>5. \/ UNCHANGED <<ifaddrs, last, claim, cb, held>>
        \/ \E g \in Group : Fails(h, g, f) /\ ipv4llg_conflicted(h, g, rest)
    BY Zenon DEF arp_read, f, rest, llg
  <1> QED
    BY <1>3, <1>4, <1>5, Zenon

(* A daemon that ends leaves its unit with at most one address of each     *)
(* group, and a new daemon with nothing.                                   *)
LEMMA EndsOwn ==
  ASSUME KeptInv, TypeInv', NEW h \in Host, ProcessEnds(h), UNCHANGED claims,
         \A k \in Host \ {h} : ifaddrs'[k] = ifaddrs[k],
         ifaddrs'[h] \subseteq ifaddrs[h]
  PROVE  KeptInv'
  <1>1. TypeOK /\ INADDR_ANY \notin Addr
    BY SetAssumption DEF KeptInv, TypeInv
  <1>2. /\ proc'[h] = 0
        /\ \A i \in Group : /\ cb'[h][i] = "none" /\ held'[h][i] = INADDR_ANY
                            /\ claim'[h][i] = INADDR_ANY
                            /\ last'[h][i] = INADDR_ANY /\ ~(i < proc'[h])
    <2>1. \A i \in Group : ~(i < 0)
      BY GroupType
    <2> QED
      BY <1>1, <2>1, EndsFacts, Zenon
  <1>3. \A k \in Host \ {h} : /\ proc'[k] = proc[k]
                              /\ \A i \in Group : Untouched(k, i)
    BY <1>1, EndsFacts DEF Untouched
  <1>4. InPool'
    BY <1>2, <1>3 DEF KeptInv, InPool, Untouched
  <1>5. OneAddressPerGroup'
    BY <1>2, <1>3 DEF KeptInv, OneAddressPerGroup, Untouched
  <1>6. HeldIsWatched'
    BY <1>2, <1>3 DEF KeptInv, HeldIsWatched, Untouched
  <1>7. Staged'
    BY <1>2, <1>3 DEF KeptInv, Staged, Untouched, Claiming, Probing
  <1> QED
    BY <1>4, <1>5, <1>6, <1>7, Zenon DEF KeptInv

(* Every step keeps the invariant. *)
LEMMA KeptNext == KeptInv /\ [Next]_vars => KeptInv'
  <1> SUFFICES ASSUME KeptInv, [Next]_vars PROVE KeptInv'
    OBVIOUS
  <1>1. TypeOK /\ TypeInv'
    BY TypeNext DEF KeptInv, TypeInv
  <1>2. ASSUME NEW h \in Host, ipv4llg_start(h) PROVE KeptInv'
    <2>1. /\ UNCHANGED <<ifaddrs, claims, claim, cb, held>>
          /\ proc[h] = 0 /\ proc' = [proc EXCEPT ![h] = 1]
          /\ last' = [last EXCEPT ![h] = claims[h]]
      BY <1>2, Zenon DEF ipv4llg_start, kernel, arp, llg
    <2>2. proc'[h] = 1 /\ \A k \in Host \ {h} : proc'[k] = proc[k]
      BY <1>1, <2>1 DEF TypeOK
    <2>3. \A i \in Group : ~(i < 1) /\ ~(i < 0)
      BY DEF Group
    <2>4. \A k \in Host, i \in Group : i < proc'[k] <=> i < proc[k]
      BY <2>1, <2>2, <2>3, Zenon
    <2>5. \A k \in Host, i \in Group : last'[k][i] \in {last[k][i], claims[k][i]}
      BY <1>1, <2>1, Zenon DEF TypeOK
    <2> QED
      BY <1>1, <2>1, <2>4, <2>5, SameKeeps, Zenon
  <1>3. ASSUME UNCHANGED <<ifaddrs, claims, proc, last, claim, cb, held>>
        PROVE  KeptInv'
    BY <1>1, <1>3, SameKeeps, Zenon
  <1>4. ASSUME NEW h \in Host, UnitFault(h) PROVE KeptInv'
    <2>1. ProcessEnds(h) /\ claims' = claims
      BY <1>4, Zenon DEF UnitFault, Crash, ipv4llg_drop, Reboot
    <2>2. /\ \A k \in Host \ {h} : ifaddrs'[k] = ifaddrs[k]
          /\ ifaddrs'[h] \subseteq ifaddrs[h]
      BY <1>1, <1>4 DEF TypeOK, UnitFault, Crash, ipv4llg_drop, Reboot
    <2> QED
      BY <1>1, <2>1, <2>2, EndsOwn, Zenon
  <1>5. ASSUME NEW h \in Host, DaemonStep(h) PROVE KeptInv'
    BY <1>1, <1>2, <1>5, StartOneOwn, TimeoutOwn, ReadOwn, Zenon DEF DaemonStep
  <1>6. ASSUME NEW h \in Host, arp_read_error(h) \/ Cable(h) PROVE KeptInv'
    BY <1>3, <1>6, Zenon DEF arp_read_error, Cable, kernel, arp, llg
  <1>7. CASE Tick
    BY <1>3, <1>7, Zenon DEF Tick
  <1>8. CASE UNCHANGED vars
    BY <1>3, <1>8 DEF vars
  <1> QED
    BY <1>4, <1>5, <1>6, <1>7, <1>8, Zenon DEF Next, ConnectedNext

(* New units satisfy it. *)
LEMMA KeptInit == Init => KeptInv
  <1> SUFFICES ASSUME Init PROVE KeptInv
    BY Zenon
  <1>1. InPool /\ HeldIsWatched /\ Staged /\ OneAddressPerGroup
    BY DEF Init, NoDaemon, PerGroup, InPool, HeldIsWatched, Staged, Claiming,
           Probing, OneAddressPerGroup
  <1> QED
    BY <1>1, TypeInit DEF KeptInv

-----------------------------------------------------------------------------
(* The theorems.                                                           *)

(* The inductive invariant itself, as the run checks it: ifaddrs, the      *)
(* states and the timeouts of ipv4ll-group.c and arp.c agree, whatever     *)
(* fails.                                                                  *)
THEOREM UnitConsistent == Spec => []KeptInv
  BY KeptInit, KeptNext, PTL DEF Spec

(* ipv4llg_start_one, ipv4llg_probed and ipv4llg_conflicted never leak an  *)
(* address: a unit has at most one of each group, and it is the one that   *)
(* the daemon will remove.  Any call may fail and any cable be pulled.     *)
THEOREM NoAddressLeaks == Spec => []OneAddressPerGroup
  <1>1. KeptInv => OneAddressPerGroup
    BY DEF KeptInv
  <1> QED
    BY <1>1, UnitConsistent, PTL

(* ipv4llg_conflicted always compares frames with the address in use, and  *)
(* that address is announced unless opening the socket failed.             *)
THEOREM HeldAlwaysWatched == Spec => []HeldIsWatched
  <1>1. KeptInv => HeldIsWatched
    BY DEF KeptInv
  <1> QED
    BY <1>1, UnitConsistent, PTL

-----------------------------------------------------------------------------
(* The claims file.                                                        *)

(* ipv4llg_probed writes the file whenever it takes an address. *)
LEMMA ProbedWrites ==
  ASSUME "write" \notin Faults, NEW h \in Host, NEW g \in Group, NEW states,
         NEW flt, ipv4llg_probed(h, g, states, flt)
  PROVE  \/ UNCHANGED <<held, claims>>
         \/ /\ held' = [held EXCEPT ![h][g] = claim'[h][g]]
            /\ claims' = [claims EXCEPT ![h] = held'[h]]
  <1>1. CASE UNCHANGED <<held, claims>>
    BY <1>1
  <1>2. CASE /\ held' = [held EXCEPT ![h][g] = claim'[h][g]]
             /\ ipv4llg_writeclaims(h)
    BY <1>2, Zenon DEF ipv4llg_writeclaims, Outcome
  <1> QED
    BY <1>1, <1>2, Zenon DEF ipv4llg_probed

(* Every step keeps the file current. *)
LEMMA CurrentNext ==
  ASSUME "write" \notin Faults
  PROVE  TypeOK /\ ClaimsFileCurrent /\ [Next]_vars => ClaimsFileCurrent'
  <1> SUFFICES ASSUME TypeOK, ClaimsFileCurrent, [Next]_vars
               PROVE  ClaimsFileCurrent'
    OBVIOUS
  <1>1. CASE UNCHANGED <<held, claims>>
    BY <1>1, Zenon DEF ClaimsFileCurrent
  <1>2. ASSUME NEW h \in Host, NEW g \in Group, NEW states, NEW flt,
               ipv4llg_probed(h, g, states, flt)
        PROVE  ClaimsFileCurrent'
    <2>1. CASE /\ held' = [held EXCEPT ![h][g] = claim'[h][g]]
               /\ claims' = [claims EXCEPT ![h] = held'[h]]
      <3>1. claims'[h] = held'[h]
        BY <2>1, Zenon DEF TypeOK
      <3>2. \A k \in Host \ {h} : claims'[k] = claims[k] /\ held'[k] = held[k]
        BY <2>1, Zenon DEF TypeOK
      <3> QED
        BY <3>1, <3>2 DEF ClaimsFileCurrent
    <2> QED
      BY <1>1, <1>2, <2>1, ProbedWrites, Zenon
  <1>3. ASSUME NEW h \in Host, NEW g \in Group, claims' = claims,
               held' = [held EXCEPT ![h][g] = INADDR_ANY]
        PROVE  ClaimsFileCurrent'
    <2>1. held \in [Host -> [Group -> OptAddr]]
      BY Zenon DEF TypeOK
    <2>2. /\ held'[h][g] = INADDR_ANY
          /\ \A k \in Host, i \in Group : k # h \/ i # g =>
               held'[k][i] = held[k][i]
      BY <1>3, <2>1, Zenon
    <2> QED
      BY <1>3, <2>2 DEF ClaimsFileCurrent
  <1>4. ASSUME NEW h \in Host, claims' = claims,
               held' = [held EXCEPT ![h] = PerGroup(INADDR_ANY)]
        PROVE  ClaimsFileCurrent'
    BY <1>4, Zenon DEF ClaimsFileCurrent, TypeOK, PerGroup
  <1>5. ASSUME NEW h \in Host, ipv4llg_start_one(h) PROVE ClaimsFileCurrent'
    BY <1>1, <1>2, <1>5, Zenon DEF ipv4llg_start_one
  <1>6. ASSUME NEW h \in Host, arp_read(h) PROVE ClaimsFileCurrent'
    <2>1. CASE UNCHANGED held
      BY <1>1, <1>6, <2>1 DEF arp_read
    <2>2. ASSUME NEW g \in Group, NEW rest, ipv4llg_conflicted(h, g, rest)
          PROVE  \/ UNCHANGED held
                 \/ held' = [held EXCEPT ![h][g] = INADDR_ANY]
      BY <2>2, Zenon
      DEF ipv4llg_conflicted, DefendClaim, LoseClaim, AbandonProbe
    <2>3. claims' = claims
      BY <1>6 DEF arp_read
    <2>4. \/ UNCHANGED held
          \/ \E g \in Group :
               ipv4llg_conflicted(h, g, [rx EXCEPT ![h] = Tail(@)])
      BY <1>6, Zenon DEF arp_read, llg
    <2> QED
      BY <1>3, <2>1, <2>2, <2>3, <2>4, Zenon
  <1>7. ASSUME NEW h \in Host, DaemonStep(h) PROVE ClaimsFileCurrent'
    <2>1. ASSUME ipv4llg_start(h) PROVE UNCHANGED <<held, claims>>
      BY <2>1, Zenon DEF ipv4llg_start, llg
    <2>2. ASSUME NEW g \in Group,
                 \/ ProbeTimeout(h, g) \/ Probe1Timeout(h, g)
                 \/ Announce1Timeout(h, g)
          PROVE  UNCHANGED <<held, claims>>
      BY <2>2 DEF ProbeTimeout, Probe1Timeout, Announce1Timeout, llg
    <2>3. ASSUME NEW g \in Group, ProbedTimeout(h, g)
          PROVE  ClaimsFileCurrent'
      BY <1>2, <2>3, Zenon DEF ProbedTimeout
    <2> QED
      BY <1>1, <1>5, <1>6, <1>7, <2>1, <2>2, <2>3, Zenon DEF DaemonStep
  <1>8. ASSUME NEW h \in Host, UnitFault(h) PROVE ClaimsFileCurrent'
    BY <1>4, <1>8, Zenon
    DEF UnitFault, Crash, ipv4llg_drop, Reboot, ProcessEnds
  <1>9. ASSUME NEW h \in Host, arp_read_error(h) \/ Cable(h)
        PROVE  ClaimsFileCurrent'
    BY <1>1, <1>9, Zenon DEF arp_read_error, Cable, llg
  <1>10. CASE Tick \/ UNCHANGED vars
    BY <1>1, <1>10 DEF Tick, vars
  <1> QED
    BY <1>7, <1>8, <1>9, <1>10, Zenon DEF Next, ConnectedNext

(* The claims file names every address in use, as long as writing it does  *)
(* not fail: ipv4llg_writeclaims runs after every address that is taken.   *)
THEOREM ClaimsFileNamesHeld ==
  ASSUME "write" \notin Faults
  PROVE  Spec => []ClaimsFileCurrent
  <1>1. Init => ClaimsFileCurrent
    BY DEF Init, NoDaemon, PerGroup, ClaimsFileCurrent
  <1>2. TypeOK /\ ClaimsFileCurrent /\ [Next]_vars => ClaimsFileCurrent'
    BY CurrentNext
  <1> QED
    BY <1>1, <1>2, TypeCorrect, PTL DEF Spec

-----------------------------------------------------------------------------
(* The frames that contest an address.                                     *)

(* The arp state of the group has something to defend, or to find out. *)
Watches(h, g) == Probing(h, g) \/ held[h][g] # INADDR_ANY

Heard(h, g) ==
  /\ Watches(h, g) /\ fd[h] => claim[h][g] \in filter[h]
  /\ held[h][g] # INADDR_ANY => fd[h] \/ "open" \in Faults \/ "read" \in Faults

(* An open socket lets through the frames about every such address, and    *)
(* only a failing call leaves an address in use without a socket.          *)
HearsClaims == \A h \in Host, g \in Group : Heard(h, g)

(* No address is found on the interface once the socket is open: the       *)
(* groups before the one that ipv4llg_start_one starts have opened it.     *)
FoundBeforeOpen ==
  \A h \in Host :
    proc[h] \in Group /\ fd[h] => ifaddrs[h] \cap Pool[proc[h]] = {}

LEMMA OthersHear ==
  ASSUME HearsClaims, NEW h \in Host,
         \A k \in Host \ {h} :
           /\ fd'[k] = fd[k] /\ filter'[k] = filter[k]
           /\ \A i \in Group : /\ cb'[k][i] = cb[k][i] /\ held'[k][i] = held[k][i]
                               /\ claim'[k][i] = claim[k][i],
         \A i \in Group : Heard(h, i)'
  PROVE  HearsClaims'
  <1>1. ASSUME NEW k \in Host \ {h}, NEW i \in Group PROVE Heard(k, i)'
    <2>1. Heard(k, i)
      BY DEF HearsClaims
    <2> QED
      BY <2>1, Zenon DEF Heard, Watches, Probing
  <1> QED
    BY <1>1, Zenon DEF HearsClaims

(* A group whose claim, socket and filter stay hears what it heard. *)
LEMMA HeardSame ==
  ASSUME NEW h \in Host, NEW i \in Group, Heard(h, i),
         fd'[h] = fd[h], filter'[h] = filter[h], held'[h][i] = held[h][i],
         claim'[h][i] = claim[h][i], Probing(h, i)' => Probing(h, i)
  PROVE  Heard(h, i)'
  BY Zenon DEF Heard, Watches

(* A group that wants another address later need not hear anything. *)
LEMMA HeardIdle ==
  ASSUME NEW h \in Host, NEW i \in Group, held'[h][i] = INADDR_ANY,
         cb'[h][i] \in {"none", "ipv4llg_probe"}
  PROVE  Heard(h, i)'
  BY DEF Heard, Watches, Probing

(* A filter that was built for the claims of all groups that were started. *)
LEMMA HeardBuilt ==
  ASSUME NGroups <= ARP_ADDRS_MAX, NEW h \in Host, NEW states \in Group,
         claim' \in [Host -> [Group -> OptAddr]], fd'[h],
         filter'[h] = bpf_arp(claim'[h], states),
         NEW i \in Group, Watches(h, i)' => i <= states
  PROVE  Heard(h, i)'
  <1>1. claim'[h] \in [Group -> OptAddr]
    OBVIOUS
  <1>2. i <= states => claim'[h][i] \in bpf_arp(claim'[h], states)
    BY <1>1, FilterType, Zenon
  <1> QED
    BY <1>2, Zenon DEF Heard

(* Groups that watch something were started. *)
LEMMA WatchersStarted ==
  ASSUME KeptInv', NEW h \in Host, NEW i \in Group, Watches(h, i)'
  PROVE  i < proc'[h]
  BY DEF KeptInv, Staged, Watches, Probing

(* arp_probe: the filter is built for the claims. *)
LEMMA ProbeHears ==
  ASSUME NGroups <= ARP_ADDRS_MAX, HearsClaims, TypeOK, KeptInv',
         NEW h \in Host, NEW g \in Group, NEW states \in Group,
         arp_probe(h, g, states), UNCHANGED held, claim'[h][g] \in Addr,
         \A k \in Host, i \in Group : k # h \/ i # g => claim'[k][i] = claim[k][i],
         held[h][g] = INADDR_ANY,
         \A i \in Group : i < proc'[h] => i <= states
  PROVE  HearsClaims'
  <1>1. claim' \in [Host -> [Group -> OptAddr]]
    BY Zenon DEF KeptInv, TypeInv, TypeOK
  <1>2. SocketOf(h) /\ OthersKept(h, g)
    BY <1>1, ProbeFacts, Zenon
  <1>3. \/ fd'[h] /\ filter'[h] = bpf_arp(claim'[h], states)
        \/ cb'[h][g] = "none" /\ UNCHANGED <<fd, filter>>
    <2>1. \/ /\ fd'[h] /\ filter'[h] = bpf_arp(claim'[h], states)
             /\ cb'[h][g] \in {"arp_probe1", "arp_probed"}
             /\ cb'[h][g] = "arp_probe1" => probes'[h][g] < PROBE_NUM
             /\ cb'[h][g] = "arp_probed" => left'[h][g] = ANNOUNCE_WAIT
             /\ TryRequest(rx, h, [kind |-> "probe", addr |-> claim'[h][g]])
          \/ cb'[h][g] = "none" /\ ~fd[h] /\ UNCHANGED <<fd, filter, rx>>
      BY <1>1, ProbeFacts, Zenon
    <2> QED
      BY <2>1
  <1>4. ASSUME NEW i \in Group PROVE Heard(h, i)'
    <2>1. CASE fd'[h] /\ filter'[h] = bpf_arp(claim'[h], states)
      BY <1>1, <2>1, WatchersStarted, HeardBuilt, Zenon
    <2>2. CASE cb'[h][g] = "none" /\ UNCHANGED <<fd, filter>>
      <3>1. CASE i = g
        BY <2>2, <3>1, HeardIdle, Zenon
      <3>2. CASE i # g
        <4>1. cb'[h][i] = cb[h][i] /\ claim'[h][i] = claim[h][i]
          BY <1>2, <3>2, Zenon DEF OthersKept
        <4> QED
          BY <2>2, <4>1, HeardSame DEF HearsClaims, Probing
      <3> QED
        BY <3>1, <3>2, Zenon
    <2> QED
      BY <1>3, <2>1, <2>2, Zenon
  <1>5. \A k \in Host \ {h} :
          /\ fd'[k] = fd[k] /\ filter'[k] = filter[k]
          /\ \A i \in Group : /\ cb'[k][i] = cb[k][i] /\ held'[k][i] = held[k][i]
                              /\ claim'[k][i] = claim[k][i]
    BY <1>2, Zenon DEF SocketOf, OthersKept
  <1> QED
    BY <1>4, <1>5, OthersHear, Zenon

(* ipv4llg_probed: the filter of an open socket has the claim already, and *)
(* a new socket has one that is built for the claims.                      *)
LEMMA ProbedHears ==
  ASSUME NGroups <= ARP_ADDRS_MAX, HearsClaims, TypeOK, KeptInv',
         NEW h \in Host, NEW g \in Group, NEW states \in Group,
         NEW flt \in SUBSET OptAddr, ipv4llg_probed(h, g, states, flt),
         claim'[h][g] \in Addr, held[h][g] = INADDR_ANY,
         \A k \in Host, i \in Group : k # h \/ i # g => claim'[k][i] = claim[k][i],
         fd[h] => flt = filter[h] /\ claim'[h][g] \in filter[h],
         \A i \in Group : i < proc'[h] => i <= states
  PROVE  HearsClaims'
  <1>1. claim' \in [Host -> [Group -> OptAddr]]
    BY Zenon DEF KeptInv, TypeInv, TypeOK
  <1>2. SocketOf(h) /\ OthersKept(h, g)
    BY <1>1, ProbedFacts, Zenon
  <1>3. \/ /\ ifaddrs' = [ifaddrs EXCEPT ![h] = @ \cup {claim'[h][g]}]
           /\ held' = [held EXCEPT ![h][g] = claim'[h][g]]
           /\ \/ /\ fd'[h]
                 /\ filter'[h] = IF fd[h] THEN flt
                                 ELSE bpf_arp(claim'[h], states)
                 /\ cb'[h][g] = "arp_announce1"
                 /\ TryRequest(rx, h,
                               [kind |-> "claim", addr |-> claim'[h][g]])
              \/ /\ cb'[h][g] = "none" /\ ~fd[h]
                 /\ UNCHANGED <<fd, filter, rx>>
        \/ /\ cb'[h][g] = "none" /\ filter'[h] = flt
           /\ claim'[h][g] \notin ifaddrs[h]
           /\ UNCHANGED <<ifaddrs, held, fd, rx>>
    BY <1>1, ProbedFacts, Zenon
  <1>4. \A k \in Host, i \in Group : k # h \/ i # g =>
          held'[k][i] = held[k][i] /\ cb'[k][i] = cb[k][i]
    <2>1. held' = held \/ held' = [held EXCEPT ![h][g] = claim'[h][g]]
      BY <1>3
    <2>2. ASSUME held' = [held EXCEPT ![h][g] = claim'[h][g]]
          PROVE  \A k \in Host, i \in Group : k # h \/ i # g =>
                   held'[k][i] = held[k][i]
      BY <2>2, Zenon DEF TypeOK
    <2>3. \A k \in Host, i \in Group : k # h \/ i # g => held'[k][i] = held[k][i]
      BY <2>1, <2>2, Zenon
    <2> QED
      BY <1>2, <2>3, Zenon DEF OthersKept
  <1>5. ASSUME NEW i \in Group PROVE Heard(h, i)'
    <2>1. CASE fd'[h] /\ ~fd[h]
      <3>1. filter'[h] = bpf_arp(claim'[h], states)
        BY <1>3, <2>1, Zenon
      <3> QED
        BY <1>1, <2>1, <3>1, WatchersStarted, HeardBuilt, Zenon
    <2>2. CASE fd[h]
      <3>1. fd'[h] /\ filter'[h] = filter[h]
        BY <1>3, <2>2
      <3>2. CASE i = g
        BY <2>2, <3>1, <3>2, Zenon DEF Heard
      <3>3. CASE i # g
        BY <1>4, <2>2, <3>1, <3>3, Zenon DEF HearsClaims, Heard, Watches, Probing
      <3> QED
        BY <3>2, <3>3, Zenon
    <2>3. CASE ~fd[h] /\ ~fd'[h]
      <3>1. CASE i = g
        <4>1. held'[h][g] # INADDR_ANY => "open" \in Faults
          <5>1. cb'[h][g] = "none"
            BY <1>3, <2>3, Zenon
          <5> QED
            BY <5>1, Zenon DEF KeptInv, HeldIsWatched
        <4> QED
          BY <2>3, <3>1, <4>1, Zenon DEF Heard
      <3>2. CASE i # g
        BY <1>4, <2>3, <3>2 DEF HearsClaims, Heard
      <3> QED
        BY <3>1, <3>2, Zenon
    <2> QED
      BY <2>1, <2>2, <2>3, Zenon
  <1>6. \A k \in Host \ {h} :
          /\ fd'[k] = fd[k] /\ filter'[k] = filter[k]
          /\ \A i \in Group : /\ cb'[k][i] = cb[k][i] /\ held'[k][i] = held[k][i]
                              /\ claim'[k][i] = claim[k][i]
    BY <1>2, <1>4, Zenon DEF SocketOf
  <1> QED
    BY <1>5, <1>6, OthersHear, Zenon

(* ipv4llg_start_one, when an address that is found finds the socket       *)
(* closed.                                                                 *)
LEMMA StartOneHears ==
  ASSUME NGroups <= ARP_ADDRS_MAX, HearsClaims, FoundBeforeOpen, KeptInv,
         KeptInv', NEW h \in Host, ipv4llg_start_one(h)
  PROVE  HearsClaims'
  <1> DEFINE g == proc[h]
             flt == IF fd[h] THEN bpf_arp(claim[h], g) ELSE filter[h]
  <1>1. TypeOK /\ g \in Group
    BY DEF KeptInv, TypeInv, ipv4llg_start_one
  <1>2. g \in Nat /\ proc'[h] = g + 1
    BY <1>1, GroupType, Zenon DEF ipv4llg_start_one, TypeOK
  <1>3. \A i \in Group : i < proc'[h] => i <= g
    BY <1>2, GroupType
  <1>4. flt \in SUBSET OptAddr
    BY <1>1, FilterType, Zenon DEF TypeOK
  <1>5. held[h][g] = INADDR_ANY
    BY <1>1, NotBelow, Zenon DEF KeptInv, Staged
  <1> HIDE DEF flt
  <1>6. ASSUME NEW a \in Addr, claim' = [claim EXCEPT ![h][g] = a]
        PROVE  /\ claim'[h][g] \in Addr
               /\ \A k \in Host, i \in Group : k # h \/ i # g =>
                    claim'[k][i] = claim[k][i]
    BY <1>1, <1>6, Zenon DEF TypeOK
  <1>7. CASE /\ \E a \in ifaddrs[h] \cap Pool[g] :
                  claim' = [claim EXCEPT ![h][g] = a]
             /\ ipv4llg_probed(h, g, g, flt)
    <2>1. PICK a \in ifaddrs[h] \cap Pool[g] :
            claim' = [claim EXCEPT ![h][g] = a]
      BY <1>7, Zenon
    <2>2. a \in Addr
      BY <1>1, Zenon DEF TypeOK
    <2>3. /\ claim'[h][g] \in Addr
          /\ \A k \in Host, i \in Group : k # h \/ i # g =>
               claim'[k][i] = claim[k][i]
      BY <1>6, <2>1, <2>2, Zenon
    <2>4. ~fd[h]
      BY <1>1, <2>1 DEF FoundBeforeOpen
    <2> QED
      BY <1>1, <1>3, <1>4, <1>5, <1>7, <2>3, <2>4, ProbedHears, Zenon
  <1>8. CASE /\ \E a \in ipv4llg_pickaddr(h, g, ifaddrs[h]) :
                  claim' = [claim EXCEPT ![h][g] = a]
             /\ arp_probe(h, g, g) /\ UNCHANGED held
    <2>1. PICK a \in ipv4llg_pickaddr(h, g, ifaddrs[h]) :
            claim' = [claim EXCEPT ![h][g] = a]
      BY <1>8, Zenon
    <2>2. a \in Addr
      BY <1>1, PickType, Zenon
    <2>3. /\ claim'[h][g] \in Addr
          /\ \A k \in Host, i \in Group : k # h \/ i # g =>
               claim'[k][i] = claim[k][i]
      BY <1>6, <2>1, <2>2, Zenon
    <2> QED
      BY <1>1, <1>3, <1>5, <1>8, <2>3, ProbeHears, Zenon
  <1> QED
    BY <1>7, <1>8, Zenon DEF ipv4llg_start_one, flt

(* The callbacks of the timeouts. *)
LEMMA TimeoutHears ==
  ASSUME NGroups <= ARP_ADDRS_MAX, HearsClaims, KeptInv, KeptInv',
         NEW h \in Host, NEW g \in Group,
         \/ ProbeTimeout(h, g) \/ Probe1Timeout(h, g)
         \/ ProbedTimeout(h, g) \/ Announce1Timeout(h, g)
  PROVE  HearsClaims'
  <1>1. TypeOK /\ NGroups \in Group
    BY GroupType DEF KeptInv, TypeInv
  <1>2. claim' = claim /\ proc' = proc /\ proc[h] = Running
    BY Zenon
    DEF ProbeTimeout, Probe1Timeout, ProbedTimeout, Announce1Timeout, Due
  <1>3. \A i \in Group : i < proc'[h] => i <= NGroups
    BY <1>2, AllStarted
  <1>4. CASE ProbeTimeout(h, g)
    <2>1. Claiming(h, g) /\ arp_probe(h, g, NGroups) /\ UNCHANGED held
      BY <1>4, ZenonT(30) DEF ProbeTimeout, Due, Claiming, llg
    <2>2. held[h][g] = INADDR_ANY /\ claim'[h][g] \in Addr
      BY <1>2, <2>1, ClaimingFacts, Zenon
    <2> QED
      BY <1>1, <1>2, <1>3, <2>1, <2>2, ProbeHears, Zenon
  <1>5. CASE ProbedTimeout(h, g)
    <2>1. Probing(h, g) /\ ipv4llg_probed(h, g, NGroups, filter[h])
      BY <1>5, Zenon DEF ProbedTimeout, Due, Probing
    <2>2. held[h][g] = INADDR_ANY /\ claim'[h][g] \in Addr
      BY <1>2, <2>1, ClaimingFacts, Zenon DEF Claiming
    <2>3. filter[h] \in SUBSET OptAddr
      BY <1>1 DEF TypeOK
    <2>4. fd[h] => claim'[h][g] \in filter[h]
      BY <1>2, <2>1, Zenon DEF HearsClaims, Heard, Watches
    <2> QED
      BY <1>1, <1>2, <1>3, <2>1, <2>2, <2>3, <2>4, ProbedHears, Zenon
  <1>6. ASSUME OthersKept(h, g), UNCHANGED <<fd, filter, held>>,
               Probing(h, g)' => Probing(h, g)
        PROVE  HearsClaims'
    <2>1. ASSUME NEW i \in Group PROVE Heard(h, i)'
      <3>1. Probing(h, i)' => Probing(h, i)
        BY <1>6, Zenon DEF OthersKept, Probing
      <3> QED
        BY <1>2, <1>6, <3>1, HeardSame, Zenon DEF HearsClaims
    <2> QED
      BY <1>2, <1>6, <2>1, OthersHear, Zenon DEF OthersKept
  <1>7. CASE Probe1Timeout(h, g)
    <2>1. /\ Probing(h, g) /\ cb[h][g] = "arp_probe1"
          /\ arp_probe1(h, g, probes[h][g]) /\ UNCHANGED <<fd, filter, held>>
      BY <1>7, Zenon DEF Probe1Timeout, Due, Probing, llg
    <2>2. claim'[h][g] \in Addr
      BY <1>2, <2>1, ClaimingFacts, Zenon DEF Claiming
    <2>3. probes[h][g] \in Nat /\ probes[h][g] < PROBE_NUM
      <3>1. probes[h][g] \in 0..PROBE_NUM
        BY <1>1, Zenon DEF TypeOK
      <3>2. probes[h][g] < PROBE_NUM
        BY <2>1, Zenon DEF KeptInv, TypeInv, TimedClaim
      <3> QED
        BY <3>1, <3>2, TimeAssumption
    <2>4. OthersKept(h, g)
      BY <1>1, <2>1, <2>2, <2>3, Probe1Facts, Zenon
    <2> QED
      BY <1>6, <2>1, <2>4, Zenon
  <1>8. CASE Announce1Timeout(h, g)
    <2>1. /\ cb[h][g] = "arp_announce1" /\ arp_announce1(h, g)
          /\ UNCHANGED <<fd, filter, held>>
      BY <1>8, Zenon DEF Announce1Timeout, Due, llg
    <2>2. claim'[h][g] \in Addr
      BY <1>2, <2>1, Zenon DEF KeptInv, TypeInv, TimedClaim
    <2>3. OthersKept(h, g) /\ cb'[h][g] = "arp_announce1"
      BY <1>1, <2>1, <2>2, Announce1Facts, Zenon
    <2>4. ~Probing(h, g)'
      BY <2>3 DEF Probing
    <2> QED
      BY <1>6, <2>1, <2>3, <2>4, Zenon
  <1> QED
    BY <1>4, <1>5, <1>7, <1>8, Zenon

(* arp_read: a group that loses its address or its claim waits, without a  *)
(* need to hear anything, until arp_probe builds the filter again.         *)
LEMMA ReadHears ==
  ASSUME HearsClaims, KeptInv, NEW h \in Host, arp_read(h)
  PROVE  HearsClaims'
  <1>1. TypeOK /\ fd' = fd
    BY Zenon DEF KeptInv, TypeInv, arp_read
  <1>2. CASE UNCHANGED <<filter, claim, cb, held>>
    BY <1>1, <1>2, Zenon DEF HearsClaims, Heard, Watches, Probing
  <1>3. ASSUME NEW g \in Group, Repick(h, g), UNCHANGED filter,
               held'[h][g] = INADDR_ANY,
               \A k \in Host, i \in Group : k # h \/ i # g =>
                 held'[k][i] = held[k][i]
        PROVE  HearsClaims'
    <2>1. /\ cb'[h][g] = "ipv4llg_probe" /\ OthersKept(h, g)
          /\ \A k \in Host, i \in Group : k # h \/ i # g =>
               claim'[k][i] = claim[k][i] /\ last'[k][i] = last[k][i]
      BY <1>1, <1>3, RepickFacts, Zenon
    <2>2. ASSUME NEW i \in Group PROVE Heard(h, i)'
      <3>1. CASE i = g
        BY <1>3, <2>1, <3>1, HeardIdle, Zenon
      <3>2. CASE i # g
        <4>1. cb'[h][i] = cb[h][i] /\ claim'[h][i] = claim[h][i]
          BY <2>1, <3>2, Zenon DEF OthersKept
        <4> QED
          BY <1>1, <1>3, <3>2, <4>1, HeardSame, Zenon DEF HearsClaims, Probing
      <3> QED
        BY <3>1, <3>2, Zenon
    <2> QED
      BY <1>1, <1>3, <2>1, <2>2, OthersHear, Zenon DEF OthersKept
  <1>4. ASSUME NEW g \in Group, NEW rest, ipv4llg_conflicted(h, g, rest)
        PROVE  HearsClaims'
    <2>1. CASE DefendClaim(h, g, rest)
      BY <1>2, <2>1 DEF DefendClaim
    <2>2. CASE LoseClaim(h, g, rest)
      <3>1. /\ Repick(h, g) /\ UNCHANGED filter
            /\ held' = [held EXCEPT ![h][g] = INADDR_ANY]
        BY <2>2 DEF LoseClaim
      <3>2. /\ held'[h][g] = INADDR_ANY
            /\ \A k \in Host, i \in Group : k # h \/ i # g =>
                 held'[k][i] = held[k][i]
        BY <1>1, <3>1, Zenon DEF TypeOK
      <3> QED
        BY <1>3, <3>1, <3>2, Zenon
    <2>3. CASE AbandonProbe(h, g, rest)
      <3>1. /\ held[h][g] # claim[h][g] /\ Repick(h, g)
            /\ UNCHANGED filter /\ UNCHANGED held
        BY <2>3, Zenon DEF AbandonProbe
      <3>2. held[h][g] = INADDR_ANY
        BY <3>1 DEF KeptInv, HeldIsWatched
      <3> QED
        BY <1>3, <3>1, <3>2, Zenon
    <2> QED
      BY <1>4, <2>1, <2>2, <2>3, Zenon DEF ipv4llg_conflicted
  <1>5. \/ UNCHANGED <<filter, claim, cb, held>>
        \/ \E g \in Group : ipv4llg_conflicted(h, g, [rx EXCEPT ![h] = Tail(@)])
    BY Zenon DEF arp_read, llg
  <1> QED
    BY <1>2, <1>4, <1>5, Zenon

(* Every step, unless it uses an address that it finds with an open socket. *)
LEMMA HearsNext ==
  ASSUME NGroups <= ARP_ADDRS_MAX
  PROVE  KeptInv /\ KeptInv' /\ FoundBeforeOpen /\ HearsClaims /\ [Next]_vars
           => HearsClaims'
  <1> SUFFICES ASSUME KeptInv, KeptInv', FoundBeforeOpen, HearsClaims,
                      [Next]_vars
               PROVE  HearsClaims'
    OBVIOUS
  <1>1. TypeOK
    BY DEF KeptInv, TypeInv
  <1>2. ASSUME UNCHANGED <<fd, filter, claim, cb, held>> PROVE HearsClaims'
    BY <1>2, Zenon DEF HearsClaims, Heard, Watches, Probing
  <1>3. ASSUME NEW h \in Host, DaemonStep(h) PROVE HearsClaims'
    <2>1. CASE ipv4llg_start(h)
      BY <1>2, <2>1, Zenon DEF ipv4llg_start, sock, arp, llg
    <2> QED
      BY <1>3, <2>1, StartOneHears, TimeoutHears, ReadHears, Zenon
      DEF DaemonStep
  <1>4. ASSUME NEW h \in Host, UnitFault(h) PROVE HearsClaims'
    <2>1. ProcessEnds(h)
      BY <1>4 DEF UnitFault, Crash, ipv4llg_drop, Reboot
    <2>2. \A i \in Group : cb'[h][i] = "none" /\ held'[h][i] = INADDR_ANY
      BY <1>1, <2>1, EndsFacts, Zenon
    <2>3. \A i \in Group : Heard(h, i)'
      BY <2>2, HeardIdle
    <2>4. \A k \in Host \ {h} :
            /\ fd'[k] = fd[k] /\ filter'[k] = filter[k] /\ cb'[k] = cb[k]
            /\ claim'[k] = claim[k] /\ held'[k] = held[k]
      BY <1>1, <2>1, EndsFacts, Zenon
    <2> QED
      BY <2>3, <2>4, OthersHear, Zenon
  <1>5. ASSUME NEW h \in Host, arp_read_error(h) PROVE HearsClaims'
    <2>1. /\ "read" \in Faults /\ fd' = [fd EXCEPT ![h] = FALSE]
          /\ filter' = [filter EXCEPT ![h] = {}] /\ UNCHANGED <<claim, cb, held>>
      BY <1>5 DEF arp_read_error, arp, llg
    <2>2. /\ ~fd'[h]
          /\ \A k \in Host \ {h} : fd'[k] = fd[k] /\ filter'[k] = filter[k]
      BY <1>1, <2>1, Zenon DEF TypeOK
    <2>3. \A i \in Group : Heard(h, i)'
      BY <2>1, <2>2, Zenon DEF Heard
    <2> QED
      BY <2>1, <2>2, <2>3, OthersHear, Zenon
  <1>6. ASSUME NEW h \in Host, Cable(h) PROVE HearsClaims'
    BY <1>2, <1>6, Zenon DEF Cable, sock, arp, llg
  <1>7. CASE Tick
    BY <1>2, <1>7, Zenon DEF Tick, sock
  <1>8. CASE UNCHANGED vars
    BY <1>2, <1>8, Zenon DEF vars
  <1> QED
    BY <1>3, <1>4, <1>5, <1>6, <1>7, <1>8, Zenon DEF Next, ConnectedNext

(* Daemons that have yet to start hear nothing and need not. *)
LEMMA HearsInit == NoDaemon => HearsClaims
  BY DEF NoDaemon, PerGroup, HearsClaims, Heard, Watches, Probing

(* Units whose daemons were killed have one address of each group. *)
LEMMA KeptKilled == KilledInit => KeptInv
  <1> SUFFICES ASSUME KilledInit PROVE KeptInv
    BY Zenon
  <1>1. /\ claims \in [Host -> [Group -> Addr]]
        /\ \A h \in Host, g \in Group : claims[h][g] \in Pool[g]
        /\ ifaddrs = [h \in Host |-> {claims[h][g] : g \in Group}]
    BY SetAssumption, Zenon DEF KilledInit
  <1>2. \A h \in Host, g \in Group : ifaddrs[h] \cap Pool[g] = {claims[h][g]}
    <2> SUFFICES ASSUME NEW h \in Host, NEW g \in Group
                 PROVE  ifaddrs[h] \cap Pool[g] = {claims[h][g]}
      OBVIOUS
    <2>1. ifaddrs[h] = {claims[h][i] : i \in Group}
      BY <1>1, Zenon
    <2>2. \A i \in Group : claims[h][i] \in Pool[g] => i = g
      BY <1>1, SetAssumption, Zenon
    <2> QED
      BY <1>1, <2>1, <2>2, Zenon
  <1>3. TypeInv
    <2>1. 0 \in 0..Running /\ 0 \in 0..PROBE_NUM /\ 0 \in 0..MAX_CONFLICTS
          /\ 0 \in 0..DEFEND_INTERVAL /\ DEFEND_INTERVAL \in 0..DEFEND_INTERVAL
      BY GroupType, TimeAssumption
    <2>2. ifaddrs \in [Host -> SUBSET Addr]
      BY <1>1
    <2>3. claims \in [Host -> [Group -> OptAddr]]
      BY <1>1, Zenon DEF OptAddr
    <2>4. rx \in [Host -> Seq(Frame)]
      BY DEF KilledInit, NoDaemon
    <2>5. TypeOK
      BY <2>1, <2>2, <2>3, <2>4
      DEF KilledInit, NoDaemon, PerGroup, TypeOK, OptAddr, Callback
    <2> QED
      BY <2>5 DEF KilledInit, NoDaemon, PerGroup, TypeInv, TimedClaim
  <1>4. OneAddressPerGroup
    <2>1. \A g \in Group : ~(g < 0)
      BY SetAssumption DEF Group
    <2>2. \A h \in Host : proc[h] = 0
      BY Zenon DEF KilledInit, NoDaemon
    <2> QED
      BY <1>2, <2>1, <2>2, Zenon DEF OneAddressPerGroup
  <1>5. InPool
    BY <1>1 DEF KilledInit, NoDaemon, PerGroup, InPool
  <1>6. HeldIsWatched /\ Staged
    BY Zenon DEF KilledInit, NoDaemon, PerGroup, HeldIsWatched, Staged, Claiming,
           Probing
  <1> QED
    BY <1>3, <1>4, <1>5, <1>6, Zenon DEF KeptInv

(* The socket is opened by the first group at the earliest. *)
OpenedByGroup == \A h \in Host : fd[h] => 1 < proc[h]

LEMMA OpenedNext == TypeInv /\ OpenedByGroup /\ [Next]_vars => OpenedByGroup'
  <1> SUFFICES ASSUME TypeInv, OpenedByGroup, [Next]_vars PROVE OpenedByGroup'
    BY Zenon
  <1>1. TypeOK /\ TypeOK' /\ 1 < Running
    BY TypeNext, GroupType, SetAssumption DEF TypeInv, Running
  <1>2. ASSUME UNCHANGED <<fd, proc>> PROVE OpenedByGroup'
    BY <1>2, Zenon DEF OpenedByGroup
  <1>3. ASSUME NEW h \in Host, 1 < proc'[h],
               \A k \in Host \ {h} : proc'[k] = proc[k] /\ fd'[k] = fd[k]
        PROVE  OpenedByGroup'
    BY <1>3, Zenon DEF OpenedByGroup
  <1>4. ASSUME NEW h \in Host, ipv4llg_start(h) PROVE OpenedByGroup'
    BY <1>1, <1>4 DEF ipv4llg_start, sock, OpenedByGroup, TypeOK
  <1>5. ASSUME NEW h \in Host, NEW g \in Group,
               \/ \E s \in Group : arp_probe(h, g, s)
               \/ \E s \in Group : \E f : ipv4llg_probed(h, g, s, f)
        PROVE  \A k \in Host \ {h} : fd'[k] = fd[k]
    <2>1. fd' = fd \/ fd' = [fd EXCEPT ![h] = TRUE]
      BY <1>5, Zenon DEF arp_probe, ipv4llg_probed, arp_announce
    <2> QED
      BY <1>1, <2>1, Zenon DEF TypeOK
  <1>6. ASSUME NEW h \in Host, ipv4llg_start_one(h) PROVE OpenedByGroup'
    <2>1. /\ proc[h] \in Group /\ proc' = [proc EXCEPT ![h] = proc[h] + 1]
          /\ \/ arp_probe(h, proc[h], proc[h])
             \/ \E f : ipv4llg_probed(h, proc[h], proc[h], f)
      BY <1>6, Zenon DEF ipv4llg_start_one
    <2>2. proc'[h] = proc[h] + 1 /\ \A k \in Host \ {h} : proc'[k] = proc[k]
      BY <1>1, <2>1, Zenon DEF TypeOK
    <2>3. 1 < proc'[h]
      BY <2>1, <2>2, SetAssumption DEF Group
    <2> QED
      BY <1>3, <1>5, <2>1, <2>2, <2>3, Zenon
  <1>7. ASSUME NEW h \in Host, DaemonStep(h) PROVE OpenedByGroup'
    <2>1. ASSUME NEW g \in Group, ProbeTimeout(h, g) \/ ProbedTimeout(h, g)
          PROVE  OpenedByGroup'
      <3>1. /\ UNCHANGED proc /\ proc[h] = Running
            /\ \/ arp_probe(h, g, NGroups)
               \/ ipv4llg_probed(h, g, NGroups, filter[h])
        BY <2>1, Zenon DEF ProbeTimeout, ProbedTimeout, Due
      <3> QED
        BY <1>1, <1>3, <1>5, <3>1, GroupType, Zenon
    <2>2. ASSUME NEW g \in Group, Probe1Timeout(h, g) \/ Announce1Timeout(h, g)
          PROVE  UNCHANGED <<fd, proc>>
      BY <2>2 DEF Probe1Timeout, Announce1Timeout
    <2>3. arp_read(h) => UNCHANGED <<fd, proc>>
      BY Zenon DEF arp_read
    <2> QED
      BY <1>2, <1>4, <1>6, <1>7, <2>1, <2>2, <2>3, Zenon DEF DaemonStep
  <1>8. ASSUME NEW h \in Host, UnitFault(h) PROVE OpenedByGroup'
    <2>1. ProcessEnds(h) /\ fd' = [fd EXCEPT ![h] = FALSE]
      BY <1>8, Zenon DEF UnitFault, Crash, ipv4llg_drop, Reboot, ProcessEnds
    <2>2. ~fd'[h]
      BY <1>1, <2>1, Zenon DEF TypeOK
    <2>3. \A k \in Host \ {h} : fd'[k] = fd[k] /\ proc'[k] = proc[k]
      BY <1>1, <2>1, EndsFacts, Zenon
    <2> QED
      BY <2>2, <2>3, Zenon DEF OpenedByGroup
  <1>9. ASSUME NEW h \in Host, arp_read_error(h) PROVE OpenedByGroup'
    <2>1. proc' = proc /\ fd' = [fd EXCEPT ![h] = FALSE]
      BY <1>9 DEF arp_read_error
    <2>2. \A k \in Host : fd'[k] => fd[k]
      BY <1>1, <2>1, Zenon DEF TypeOK
    <2> QED
      BY <2>1, <2>2, Zenon DEF OpenedByGroup
  <1>10. ASSUME NEW h \in Host, Cable(h) PROVE OpenedByGroup'
    BY <1>2, <1>10, Zenon DEF Cable, sock
  <1>11. CASE Tick \/ UNCHANGED vars
    BY <1>2, <1>11 DEF Tick, vars, sock
  <1> QED
    BY <1>7, <1>8, <1>9, <1>10, <1>11, Zenon DEF Next, ConnectedNext

(* Groups that have yet to be started find nothing on the interface. *)
CleanStart ==
  \A h \in Host, g \in Group : ~(g < proc[h]) => ifaddrs[h] \cap Pool[g] = {}

(* Daemons are stopped and units lose power, but no daemon is killed. *)
UnkilledNext ==
  \/ Tick
  \/ \E h \in Host : \/ DaemonStep(h) \/ arp_read_error(h) \/ Cable(h)
                     \/ ipv4llg_drop(h) \/ Reboot(h)

LEMMA CleanNext ==
  ASSUME KeptInv, CleanStart, [UnkilledNext]_vars
  PROVE  CleanStart'
  <1>1. TypeOK
    BY DEF KeptInv, TypeInv
  <1>2. ASSUME NEW h \in Host, NEW n, UNCHANGED ifaddrs,
               proc' = [proc EXCEPT ![h] = n],
               \A i \in Group : i < proc[h] => i < n
        PROVE  CleanStart'
    <2>1. proc'[h] = n /\ \A k \in Host \ {h} : proc'[k] = proc[k]
      BY <1>1, <1>2, Zenon DEF TypeOK
    <2> QED
      BY <1>2, <2>1, Zenon DEF CleanStart
  <1>3. ASSUME UNCHANGED <<ifaddrs, proc>> PROVE CleanStart'
    BY <1>3 DEF CleanStart
  <1>4. ASSUME NEW h \in Host, UNCHANGED proc, proc[h] = Running,
               \A k \in Host \ {h} : ifaddrs'[k] = ifaddrs[k]
        PROVE  CleanStart'
    <2>1. \A i \in Group : i < proc'[h]
      BY <1>4, AllStarted
    <2> QED
      BY <1>4, <2>1, Zenon DEF CleanStart
  <1>5. ASSUME NEW h \in Host, \A k \in Host \ {h} :
                 ifaddrs'[k] = ifaddrs[k] /\ proc'[k] = proc[k],
               \A g \in Group : ifaddrs'[h] \cap Pool[g] = {}
        PROVE  CleanStart'
    BY <1>5, Zenon DEF CleanStart
  <1>6. ASSUME NEW h \in Host, ipv4llg_start(h) PROVE CleanStart'
    <2>1. proc[h] = 0 /\ proc' = [proc EXCEPT ![h] = 1] /\ ifaddrs' = ifaddrs
      BY <1>6, Zenon DEF ipv4llg_start, kernel
    <2>2. \A i \in Group : i < 0 => i < 1
      BY GroupType
    <2> QED
      BY <1>2, <2>1, <2>2, Zenon
  <1>7. ASSUME NEW h \in Host, ipv4llg_start_one(h) PROVE CleanStart'
    <2>1. /\ proc[h] \in Group /\ proc' = [proc EXCEPT ![h] = proc[h] + 1]
          /\ ifaddrs[h] \cap Pool[proc[h]] = {}
      BY <1>7, GroupType DEF ipv4llg_start_one, CleanStart
    <2>2. ifaddrs' = ifaddrs
      BY <1>7, <2>1, Zenon DEF ipv4llg_start_one
    <2>3. \A i, n \in Group : i < n => i < n + 1
      BY GroupType
    <2> QED
      BY <1>2, <2>1, <2>2, <2>3, Zenon
  <1>8. ASSUME NEW h \in Host, NEW g \in Group, ProbedTimeout(h, g)
        PROVE  CleanStart'
    <2>1. /\ proc[h] = Running /\ proc' = proc
          /\ \/ ifaddrs' = ifaddrs
             \/ ifaddrs' = [ifaddrs EXCEPT ![h] = @ \cup {claim'[h][g]}]
      BY <1>8, Zenon DEF ProbedTimeout, Due, ipv4llg_probed
    <2>2. \A k \in Host \ {h} : ifaddrs'[k] = ifaddrs[k]
      BY <1>1, <2>1, Zenon DEF TypeOK
    <2> QED
      BY <1>4, <2>1, <2>2, Zenon
  <1>9. ASSUME NEW h \in Host, NEW g \in Group,
               \/ ProbeTimeout(h, g) \/ Probe1Timeout(h, g)
               \/ Announce1Timeout(h, g)
        PROVE  UNCHANGED <<ifaddrs, proc>>
    BY <1>9 DEF ProbeTimeout, Probe1Timeout, Announce1Timeout, kernel
  <1>10. ASSUME NEW h \in Host, arp_read(h) PROVE CleanStart'
    <2>1. /\ proc[h] = Running /\ proc' = proc
          /\ \/ ifaddrs' = ifaddrs
             \/ \E a : ifaddrs' = [ifaddrs EXCEPT ![h] = @ \ {a}]
      BY <1>10, Zenon DEF arp_read, ipv4llg_conflicted, DefendClaim, LoseClaim,
                   AbandonProbe
    <2>2. \A k \in Host \ {h} : ifaddrs'[k] = ifaddrs[k]
      BY <1>1, <2>1, Zenon DEF TypeOK
    <2> QED
      BY <1>4, <2>1, <2>2, Zenon
  <1>11. ASSUME NEW h \in Host, DaemonStep(h) PROVE CleanStart'
    BY <1>3, <1>6, <1>7, <1>8, <1>9, <1>10, <1>11, Zenon DEF DaemonStep
  <1>12. ASSUME NEW h \in Host, ipv4llg_drop(h) PROVE CleanStart'
    <2>1. /\ proc[h] = Running /\ ProcessEnds(h)
          /\ ifaddrs' = [ifaddrs EXCEPT ![h] = @ \ {held[h][g] : g \in Group}]
      BY <1>12, Zenon DEF ipv4llg_drop
    <2>2. /\ ifaddrs'[h] = ifaddrs[h] \ {held[h][g] : g \in Group}
          /\ \A k \in Host \ {h} : ifaddrs'[k] = ifaddrs[k]
      BY <1>1, <2>1, Zenon DEF TypeOK
    <2>3. \A g \in Group : ifaddrs[h] \cap Pool[g] \subseteq {held[h][g]}
      BY <2>1, AllStarted, Zenon DEF KeptInv, OneAddressPerGroup
    <2>4. \A g \in Group : ifaddrs'[h] \cap Pool[g] = {}
      BY <2>2, <2>3, Zenon
    <2>5. \A k \in Host \ {h} : proc'[k] = proc[k]
      BY <1>1, <2>1, EndsFacts, Zenon
    <2> QED
      BY <1>5, <2>2, <2>4, <2>5, Zenon
  <1>13. ASSUME NEW h \in Host, Reboot(h) PROVE CleanStart'
    <2>1. ProcessEnds(h) /\ ifaddrs' = [ifaddrs EXCEPT ![h] = {}]
      BY <1>13 DEF Reboot
    <2>2. ifaddrs'[h] = {} /\ \A k \in Host \ {h} : ifaddrs'[k] = ifaddrs[k]
      BY <1>1, <2>1, Zenon DEF TypeOK
    <2>3. \A k \in Host \ {h} : proc'[k] = proc[k]
      BY <1>1, <2>1, EndsFacts, Zenon
    <2>4. \A g \in Group : ifaddrs'[h] \cap Pool[g] = {}
      BY <2>2, Zenon
    <2> QED
      BY <1>5, <2>2, <2>3, <2>4, Zenon
  <1>14. ASSUME NEW h \in Host, arp_read_error(h) \/ Cable(h)
         PROVE  UNCHANGED <<ifaddrs, proc>>
    BY <1>14, Zenon DEF arp_read_error, Cable, kernel
  <1>15. CASE Tick \/ UNCHANGED vars
    BY <1>3, <1>15, Zenon DEF Tick, vars
  <1> QED
    BY <1>3, <1>11, <1>12, <1>13, <1>14, <1>15, Zenon DEF UnkilledNext

LEMMA HeardIsListened == KeptInv /\ HearsClaims => ListensToHeld
  BY Zenon DEF KeptInv, HeldIsWatched, HearsClaims, Heard, Watches, ListensToHeld

(* ListensToHeld, as long as no group finds its address on the interface   *)
(* when the socket is open already: arp_new builds the filter before such  *)
(* a group has set the address (ipv4llg_start_one), and arp_announce only  *)
(* builds the filter of a socket that it opens (arp.c).                    *)
THEOREM ListensUnlessFoundLate ==
  ASSUME NGroups <= ARP_ADDRS_MAX
  PROVE  (Init \/ KilledInit) /\ [][Next]_vars /\ []FoundBeforeOpen
           => []ListensToHeld
  <1>1. Init \/ KilledInit => KeptInv /\ HearsClaims
    BY KeptInit, KeptKilled, HearsInit, Zenon DEF Init, KilledInit
  <1>2. KeptInv /\ [Next]_vars => KeptInv'
    BY KeptNext
  <1>3. KeptInv /\ KeptInv' /\ FoundBeforeOpen /\ HearsClaims /\ [Next]_vars
          => HearsClaims'
    BY HearsNext
  <1> QED
    BY <1>1, <1>2, <1>3, HeardIsListened, PTL

(* ListensToHeld with one group, whoever was killed: the daemon opens its  *)
(* socket after it has looked for an address on the interface.             *)
THEOREM OneGroupListens ==
  ASSUME NGroups = 1, NGroups <= ARP_ADDRS_MAX
  PROVE  (Init \/ KilledInit) /\ [][Next]_vars => []ListensToHeld
  <1>1. Init \/ KilledInit => TypeInv /\ OpenedByGroup
    BY KeptInit, KeptKilled, Zenon
    DEF Init, KilledInit, NoDaemon, OpenedByGroup, KeptInv
  <1>2. TypeInv /\ [Next]_vars => TypeInv'
    BY TypeNext, Zenon
  <1>3. OpenedByGroup => FoundBeforeOpen
    BY SMTT(30) DEF OpenedByGroup, FoundBeforeOpen, Group
  <1>4. (Init \/ KilledInit) /\ [][Next]_vars /\ []FoundBeforeOpen
          => []ListensToHeld
    BY ListensUnlessFoundLate
  <1> QED
    BY <1>1, <1>2, <1>3, <1>4, OpenedNext, PTL

(* ListensToHeld with as many groups as the filter has room for, when no   *)
(* daemon is killed: one that is stopped takes its addresses off the       *)
(* interface (ipv4llg_drop), so the next one finds none.                   *)
THEOREM UnkilledListens ==
  ASSUME NGroups <= ARP_ADDRS_MAX
  PROVE  Init /\ [][UnkilledNext]_vars => []ListensToHeld
  <1>1. Init => KeptInv /\ CleanStart
    BY KeptInit DEF Init, CleanStart
  <1>2. [UnkilledNext]_vars => [Next]_vars
    BY Zenon DEF UnkilledNext, Next, ConnectedNext, UnitFault
  <1>3. KeptInv /\ [Next]_vars => KeptInv'
    BY KeptNext, Zenon
  <1>4. KeptInv /\ CleanStart /\ [UnkilledNext]_vars => CleanStart'
    BY CleanNext
  <1>5. CleanStart => FoundBeforeOpen
    BY NotBelow, Zenon DEF CleanStart, FoundBeforeOpen
  <1>6. (Init \/ KilledInit) /\ [][Next]_vars /\ []FoundBeforeOpen
          => []ListensToHeld
    BY ListensUnlessFoundLate
  <1> QED
    BY <1>1, <1>2, <1>3, <1>4, <1>5, <1>6, PTL
=============================================================================
