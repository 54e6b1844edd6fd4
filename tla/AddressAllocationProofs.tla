----------------------- MODULE AddressAllocationProofs -----------------------
(***************************************************************************)
(* What holds of ports and addresses for every number of machines, every   *)
(* bounds and every range.  The inductive invariant says of each part of   *)
(* LDAP what the broker still has in hand when it is between its search    *)
(* and its entry, and where a domain stands while its machine is migrated  *)
(* or removed.                                                             *)
(***************************************************************************)
EXTENDS AddressAllocation, WellFoundedInduction, TLAPS

\* The steps at which the port found is not yet in LDAP.
Holding == {"add"} \cup Migrating

Ports ==
  /\ PortsDistinct
  /\ pc \in Holding => \A v \in Machine : v # vm /\ sstSpicePort[v] = port => port \in racedPorts

Domains ==
  /\ \A v \in Machine \ astray : domain[v] # NoPort => domain[v] = sstSpicePort[v]
  /\ pc = "done" => domain[vm] \in {port, NoPort}
  /\ pc \in Cloning => domain[vm] = NoPort
  /\ pc \in Removing => domain[vm] = NoPort \/ vm \in astray

Outside(p) == p # NoPort /\ p \notin bounds[1]..bounds[2]

Limits ==
  /\ FailsOnlyWhenFull
  /\ NoAddress \in {h.address : h \in dhcpHost} => "addresses" \in causes
  /\ pc = "host" /\ ip = NoAddress => "addresses" \in causes
  /\ \A v \in Machine : Outside(sstSpicePort[v]) => causes \cap {"ports", "settings"} # {}
  /\ pc \in Holding /\ Outside(port) => causes \cap {"ports", "settings"} # {}
  /\ settings # bounds => "settings" \in causes

\* What AddressesDistinct asks of an address.
Proper(a) ==
  \/ a = NoAddress /\ "addresses" \in causes
  \/ a # Router /\ ip2long(a) \in hostmin..hostmax

HasHost(v) == \E h \in dhcpHost : h.vm = v

Addresses ==
  /\ AddressesDistinct
  /\ pc = "host" => Proper(ip) /\ \A h \in dhcpHost : h.address = ip => ip \in racedAddresses
  /\ pc \in {"start", "done"} => HasHost(vm)

-----------------------------------------------------------------------------

LEMMA Least ==
  ASSUME NEW S, S \subseteq Nat, S # {}
  PROVE  \E p \in S : \A q \in S : p <= q
<1>1. \E p \in S : \A q \in S : ~ (<<q, p>> \in OpToRel(<, Nat))
  BY WFMin, NatLessThanWellFounded, Zenon
<1>2. PICK p \in S : \A q \in S : ~ (<<q, p>> \in OpToRel(<, Nat))
  BY <1>1
<1>3. \A q \in S : ~ (q < p)
  BY <1>2, Zenon DEF OpToRel
<1> QED  BY <1>3, SMT

LEMMA NextPort ==
  ASSUME TypeOK
  PROVE  /\ nextSpicePort \in Nat
         /\ FreePorts = {} => nextSpicePort = 0
         /\ FreePorts # {} => nextSpicePort \in FreePorts
<1>1. FreePorts \subseteq Nat
  BY PortAssumption, SMT DEF TypeOK, FreePorts
<1>2. CASE FreePorts = {}
  BY <1>2 DEF nextSpicePort
<1>3. CASE FreePorts # {}
  BY <1>1, <1>3, Least DEF nextSpicePort
<1> QED  BY <1>2, <1>3

LEMMA RoundTrip ==
  ASSUME NEW i \in Int
  PROVE  ip2long(long2ip(i)) = i
  BY SMT DEF ip2long, long2ip

LEMMA IsAddress ==
  ASSUME NEW i \in Nat
  PROVE  long2ip(i) \in Address /\ long2ip(i) # NoAddress
<1> DEFINE k1 == i \div 16777216
           k2 == (i - 16777216 * k1) \div 65536
           k3 == (i - 16777216 * k1 - 65536 * k2) \div 256
           k4 == i - 16777216 * k1 - 65536 * k2 - 256 * k3
<1>1. k1 \in Nat /\ i - 16777216 * k1 \in Nat
  BY SMT
<1>2. k2 \in Nat /\ i - 16777216 * k1 - 65536 * k2 \in Nat
  BY <1>1, SMT
<1>3. k3 \in Nat /\ k4 \in Nat
  BY <1>2, SMT
<1>4. long2ip(i) = <<k1, k2, k3, k4>>
  BY DEF long2ip
<1> HIDE DEF k1, k2, k3, k4
<1> QED  BY <1>1, <1>2, <1>3, <1>4 DEF Address, NoAddress

LEMMA HostBounds == hostmin \in Nat /\ hostmax \in Int
<1>1. ip2long(rangeAddress) \in Nat
  <2>1. \A i \in 1..4 : rangeAddress[i] \in Nat
    BY RangeAssumption DEF rangeAddress
  <2> QED  BY <2>1, SMT DEF ip2long
<1>2. network \in Nat
  <2>1. \A x \in Nat, k \in Nat : x - (x % (k + 1)) \in Nat
    BY SMT
  <2> QED  BY <1>1, <2>1, RangeAssumption DEF network
<1> QED  BY <1>2, RangeAssumption, SMT DEF hostmin, hostmax, broadcast

LEMMA FreeIp ==
  ASSUME NEW i \in FreeIps
  PROVE  /\ long2ip(i) \in Address
         /\ long2ip(i) # NoAddress
         /\ long2ip(i) # Router
         /\ ip2long(long2ip(i)) \in hostmin..hostmax
         /\ \A h \in dhcpHost : h.address # long2ip(i)
<1>1. i \in Nat /\ i \in hostmin..hostmax /\ i \notin ips
  BY HostBounds, SMT DEF FreeIps
<1>2. ip2long(long2ip(i)) = i
  BY <1>1, RoundTrip
<1>3. long2ip(i) \in Address /\ long2ip(i) # NoAddress
  BY <1>1, IsAddress
<1>4. \A a \in Hosts \cup {Router} : a # NoAddress => ip2long(a) \in ips
  BY DEF ips
<1> QED  BY <1>1, <1>2, <1>3, <1>4, Zenon DEF Hosts

LEMMA GetFreeIp ==
  /\ FreeIps = {} => getFreeIp = NoAddress
  /\ FreeIps # {} => \E i \in FreeIps : getFreeIp = long2ip(i)
<1>1. FreeIps \subseteq Nat
  BY HostBounds, SMT DEF FreeIps
<1> QED  BY <1>1, Least, Zenon DEF getFreeIp

-----------------------------------------------------------------------------
\* Type correctness.

LEMMA EventStep == TypeOK /\ Event => events' \in 0..MaxEvents
  BY EventsAssumption, SMT DEF Event, TypeOK

LEMMA PortBounds ==
  ASSUME NEW s \in PortSettings
  PROVE  s[1] \in Nat \ {0} /\ s[2] \in Nat \ {0}
  BY PortAssumption

LEMMA IntervalNat == \A x, y \in Nat : \A q \in x..y : q \in Nat
  BY SMT

LEMMA TypeStep == TypeOK /\ [Next]_vars => TypeOK'
<1> SUFFICES ASSUME TypeOK, [Next]_vars PROVE TypeOK'
  OBVIOUS
<1> USE VmAssumption, EventStep DEF TypeOK, Machine, Ending, Cloning, Migrating, Removing
<1>1. ASSUME NEW v \in Vm, Clone(v) PROVE TypeOK'
  <2>1. CASE MarksOutside
    BY <1>1, <2>1 DEF Clone, FindPort, ldap, history, races, End, Port, NoPort
  <2>2. CASE ~MarksOutside
    BY <1>1, <2>2, NextPort DEF Clone, FindPort, ldap, history, races, Port
  <2> QED  BY <2>1, <2>2
<1>2. ASSUME NEW v \in Vm, Migrate(v) PROVE TypeOK'
  <2>1. CASE MarksOutside
    BY <1>2, <2>1 DEF Migrate, FindPort, ldap, history, races, End, Port, NoPort
  <2>2. CASE ~MarksOutside
    BY <1>2, <2>2, NextPort DEF Migrate, FindPort, ldap, history, races, Port
  <2> QED  BY <2>1, <2>2
<1>3. ASSUME NEW v \in Vm, Remove(v) PROVE TypeOK'
  BY <1>3 DEF Remove, Port, NoPort, ldap, found, history, races, End
<1>4. ASSUME NEW v \in Vm, Overlook(v) PROVE TypeOK'
  BY <1>4 DEF Overlook, Port, NoPort, ldap, found, history, races, End
<1>5. CASE AddEntry
  BY <1>5 DEF AddEntry, Port, NoPort, ldap, found, history, races, End
<1>6. CASE FindIp
  <2>1. getFreeIp \in Address \cup {NoAddress}
    BY GetFreeIp, FreeIp
  <2> QED  BY <1>6, <2>1 DEF FindIp, ldap, history, races, End, Port, NoPort
<1>7. CASE AddHost
  BY <1>7 DEF AddHost, Port, NoPort, ldap, found, history, races, End
<1>8. CASE StartVm
  BY <1>8 DEF StartVm, Port, NoPort, ldap, found, history, races, End
<1>9. CASE StartFails
  BY <1>9 DEF StartFails, Port, NoPort, ldap, found, history, races, End
<1>10. CASE Record
  BY <1>10 DEF Record, Port, NoPort, ldap, found, history, races, End
<1>11. CASE MigrateVm
  BY <1>11 DEF MigrateVm, Port, NoPort, ldap, found, history, races, End
<1>12. CASE MigrateFails
  BY <1>12 DEF MigrateFails, Port, NoPort, ldap, found, history, races, End
<1>13. CASE RecordDone
  BY <1>13 DEF RecordDone, Port, NoPort, ldap, found, history, races, End
<1>14. CASE RemoveEntry
  BY <1>14 DEF RemoveEntry, Port, NoPort, ldap, found, history, races, End
<1>15. CASE RemoveHost
  BY <1>15 DEF RemoveHost, Port, NoPort, ldap, found, history, races, End
<1>16. CASE LdapFails
  BY <1>16 DEF LdapFails, Port, NoPort, ldap, found, history, races, End
<1>17. CASE Restart
  BY <1>17 DEF Restart, Port, NoPort, ldap, found, history, races, End
<1>18. ASSUME NEW v \in Machine, DomainStops(v) PROVE TypeOK'
  BY <1>18 DEF DomainStops, Port, NoPort, ldap, found, history, races, End
<1>19. ASSUME NEW v \in WebVm, WebAdds(v) PROVE TypeOK'
  <2>1. PICK p \in (settings[1]..settings[2]) \ UsedPorts, i \in FreeIps :
           /\ sstSpicePort' = [sstSpicePort EXCEPT ![v] = p]
           /\ domain' = [domain EXCEPT ![v] = p]
           /\ dhcpHost' = dhcpHost \cup {[vm |-> v, address |-> long2ip(i)]}
           /\ racedPorts' = racedPorts \cup
                IF pc \in {"add"} \cup Migrating /\ p = port THEN {p} ELSE {}
           /\ racedAddresses' = racedAddresses \cup
                IF pc = "host" /\ long2ip(i) = ip THEN {ip} ELSE {}
    BY <1>19 DEF WebAdds
  <2>2. p \in Nat
    <3>1. settings[1] \in Nat /\ settings[2] \in Nat
      BY PortBounds, Zenon
    <3> QED  BY <2>1, <3>1, IntervalNat, Zenon
  <2>3. long2ip(i) \in Address
    BY FreeIp
  <2>4. dhcpHost' \subseteq [vm : Machine, address : Address \cup {NoAddress}]
    <3>1. [vm |-> v, address |-> long2ip(i)] \in
            [vm : Machine, address : Address \cup {NoAddress}]
      BY <2>3, Zenon
    <3>2. dhcpHost \subseteq [vm : Machine, address : Address \cup {NoAddress}]
      BY Zenon
    <3> QED  BY <2>1, <3>1, <3>2, Zenon
  <2>5. /\ sstSpicePort' \in [Machine -> Port] /\ domain' \in [Machine -> Port]
        /\ racedPorts' \subseteq Nat
    BY <2>1, <2>2 DEF Port
  <2>6. racedAddresses' \subseteq Address
    BY <2>1, <2>3
  <2> QED  BY <1>19, <2>4, <2>5, <2>6 DEF WebAdds, found
<1>20. ASSUME NEW s \in PortSettings, SettingsChange(s) PROVE TypeOK'
  BY <1>20 DEF SettingsChange, Port, NoPort, ldap, found, history, races, End
<1>21. CASE UNCHANGED vars
  BY <1>21 DEF vars, Port, NoPort, ldap, found, history, races
<1> QED
  BY <1>1, <1>2, <1>3, <1>4, <1>5, <1>6, <1>7, <1>8, <1>9, <1>10, <1>11, <1>12,
     <1>13, <1>14, <1>15, <1>16, <1>17, <1>18, <1>19, <1>20, <1>21 DEF Next

\* TypeOK of AddressAllocation holds whatever machines, bounds and ranges
\* there are.
THEOREM TypeCorrect == Spec => []TypeOK
<1>1. Init => TypeOK
  BY VmAssumption, EventsAssumption, SMT DEF Init, TypeOK, Port, NoPort,
     Machine, Ending
<1>2. TypeOK /\ [Next]_vars => TypeOK'
  BY TypeStep
<1> QED  BY <1>1, <1>2, PTL DEF Spec

-----------------------------------------------------------------------------
\* Ports.

\* What is found is nobody's.
LEMMA Search ==
  ASSUME TypeOK, ~MarksOutside
  PROVE  /\ nextSpicePort \in Nat
         /\ \A v \in Machine : sstSpicePort[v] # nextSpicePort
<1>1. SUFFICES ASSUME NEW v \in Machine, sstSpicePort[v] = nextSpicePort PROVE FALSE
  BY NextPort
<1>2. nextSpicePort \in UsedPorts
  BY <1>1, NextPort, SMT DEF UsedPorts, NoPort
<1>3. nextSpicePort \in bounds[1]..bounds[2]
  BY <1>2 DEF MarksOutside
<1>4. nextSpicePort # 0
  BY <1>3, PortBounds, SMT DEF TypeOK
<1> QED  BY <1>2, <1>4, NextPort DEF FreePorts

\* No operation has a port in hand where it ends.
LEMMA NotFound == \A how \in Ending : how \notin Holding
  BY DEF Ending, Holding, Migrating

LEMMA PortsStep == TypeOK /\ Ports /\ [Next]_vars => Ports'
<1> SUFFICES ASSUME TypeOK, Ports, [Next]_vars PROVE Ports'
  OBVIOUS
<1> USE DEF Ports, PortsDistinct, Holding, Migrating
<1>a. sstSpicePort \in [Machine -> Port] /\ vm \in Machine \cup {NoVm} /\ vm \notin WebVm
  BY VmAssumption DEF TypeOK, Machine
<1>b. pc \notin Ending => vm \in Machine /\ vm \notin WebVm
  BY VmAssumption DEF TypeOK, Machine
<1>1. ASSUME NEW v \in Vm, Clone(v) PROVE Ports'
  <2>1. CASE MarksOutside
    BY <1>1, <2>1, NotFound DEF Clone, FindPort, ldap, races, End
  <2>2. CASE ~MarksOutside
    BY <1>1, <2>2, Search DEF Clone, FindPort, ldap, races
  <2> QED  BY <2>1, <2>2
<1>2. ASSUME NEW v \in Vm, Migrate(v) PROVE Ports'
  <2>1. CASE MarksOutside
    BY <1>2, <2>1, NotFound DEF Migrate, FindPort, ldap, races, End
  <2>2. CASE ~MarksOutside
    BY <1>2, <2>2, Search DEF Migrate, FindPort, ldap, races
  <2> QED  BY <2>1, <2>2
<1>3. ASSUME NEW v \in Vm, Remove(v) PROVE Ports'
  BY <1>3, <1>a, <1>b DEF Remove, NoPort, Ending, ldap, found, history, races, End
<1>4. ASSUME NEW v \in Vm, Overlook(v) PROVE Ports'
  BY <1>4, <1>a, <1>b DEF Overlook, NoPort, Ending, ldap, found, history, races, End
<1>5. CASE AddEntry
  BY <1>5, <1>a, <1>b DEF AddEntry, NoPort, Ending, ldap, found, history, races, End
<1>6. CASE FindIp
  BY <1>6, <1>a, <1>b DEF FindIp, NoPort, Ending, ldap, found, history, races, End
<1>7. CASE AddHost
  BY <1>7, <1>a, <1>b DEF AddHost, NoPort, Ending, ldap, found, history, races, End
<1>8. CASE StartVm
  BY <1>8, <1>a, <1>b DEF StartVm, NoPort, Ending, ldap, found, history, races, End
<1>9. CASE StartFails
  BY <1>9, <1>a, <1>b DEF StartFails, NoPort, Ending, ldap, found, history,
     races, End
<1>10. CASE Record
  BY <1>10, <1>a, <1>b DEF Record, NoPort, Ending, ldap, found, history, races, End
<1>11. CASE MigrateVm
  BY <1>11, <1>a, <1>b DEF MigrateVm, NoPort, Ending, ldap, found, history,
     races, End
<1>12. CASE MigrateFails
  BY <1>12, <1>a, <1>b DEF MigrateFails, NoPort, Ending, ldap, found, history,
     races, End
<1>13. CASE RecordDone
  BY <1>13, <1>a, <1>b DEF RecordDone, NoPort, Ending, ldap, found, history,
     races, End
<1>14. CASE RemoveEntry
  BY <1>14, <1>a, <1>b DEF RemoveEntry, NoPort, Ending, ldap, found, history,
     races, End
<1>15. CASE RemoveHost
  BY <1>15, <1>a, <1>b DEF RemoveHost, NoPort, Ending, ldap, found, history,
     races, End
<1>16. CASE LdapFails
  BY <1>16, <1>a, <1>b DEF LdapFails, NoPort, Ending, ldap, found, history,
     races, End
<1>17. CASE Restart
  BY <1>17, <1>a, <1>b DEF Restart, NoPort, Ending, ldap, found, history, races, End
<1>18. ASSUME NEW v \in Machine, DomainStops(v) PROVE Ports'
  BY <1>18, <1>a, <1>b DEF DomainStops, NoPort, Ending, ldap, found, history,
     races, End
<1>19. ASSUME NEW v \in WebVm, WebAdds(v) PROVE Ports'
  <2>1. PICK p \in (settings[1]..settings[2]) \ UsedPorts, i \in FreeIps :
           /\ sstSpicePort' = [sstSpicePort EXCEPT ![v] = p]
           /\ domain' = [domain EXCEPT ![v] = p]
           /\ dhcpHost' = dhcpHost \cup {[vm |-> v, address |-> long2ip(i)]}
           /\ racedPorts' = racedPorts \cup
                IF pc \in {"add"} \cup Migrating /\ p = port THEN {p} ELSE {}
           /\ racedAddresses' = racedAddresses \cup
                IF pc = "host" /\ long2ip(i) = ip THEN {ip} ELSE {}
    BY <1>19 DEF WebAdds
  <2>2. p \in Nat /\ \A w \in Machine : sstSpicePort[w] # p
    <3>1. settings[1] \in Nat /\ settings[2] \in Nat
      BY PortBounds, Zenon DEF TypeOK
    <3>2. p \in Nat
      BY <2>1, <3>1, IntervalNat, Zenon
    <3> QED  BY <3>2, SMT DEF UsedPorts, NoPort
  <2> QED  BY <1>19, <2>1, <2>2, SMT DEF WebAdds, found, Machine
<1>20. ASSUME NEW s \in PortSettings, SettingsChange(s) PROVE Ports'
  BY <1>20, <1>a, <1>b DEF SettingsChange, NoPort, Ending, ldap, found,
     history, races, End
<1>21. CASE UNCHANGED vars
  BY <1>21, <1>a, <1>b DEF vars, NoPort, Ending, ldap, found, history, races
<1> QED
  BY <1>1, <1>2, <1>3, <1>4, <1>5, <1>6, <1>7, <1>8, <1>9, <1>10, <1>11, <1>12,
     <1>13, <1>14, <1>15, <1>16, <1>17, <1>18, <1>19, <1>20, <1>21 DEF Next

\* PortsDistinct of AddressAllocation holds whatever machines and bounds there
\* are, and however often they change.
THEOREM DistinctPorts == Spec => []PortsDistinct
<1>1. Init => Ports
  BY DEF Init, Ports, PortsDistinct, Holding, Migrating
<1>2. TypeOK /\ Ports /\ [Next]_vars => Ports'
  BY PortsStep
<1>3. Ports => PortsDistinct
  BY DEF Ports
<1> QED  BY <1>1, <1>2, <1>3, TypeCorrect, PTL DEF Spec

-----------------------------------------------------------------------------
\* Domains.

LEMMA DomainsStep == TypeOK /\ Domains /\ [Next]_vars => Domains'
<1> SUFFICES ASSUME TypeOK, Domains, [Next]_vars PROVE Domains'
  OBVIOUS
<1> USE DEF Domains, Cloning, Removing
<1>a. sstSpicePort \in [Machine -> Port] /\ domain \in [Machine -> Port]
  BY DEF TypeOK
<1>b. pc \notin Ending => vm \in Machine /\ vm \notin WebVm
  BY VmAssumption DEF TypeOK, Machine
<1>1. ASSUME NEW v \in Vm, Clone(v) PROVE Domains'
  <2>1. CASE MarksOutside
    BY <1>1, <2>1 DEF Clone, FindPort, ldap, races, End
  <2>2. CASE ~MarksOutside
    BY <1>1, <2>2 DEF Clone, FindPort, ldap, races
  <2> QED  BY <2>1, <2>2
<1>2. ASSUME NEW v \in Vm, Migrate(v) PROVE Domains'
  <2>1. CASE MarksOutside
    BY <1>2, <2>1 DEF Migrate, FindPort, ldap, races, End
  <2>2. CASE ~MarksOutside
    BY <1>2, <2>2 DEF Migrate, FindPort, ldap, races
  <2> QED  BY <2>1, <2>2
<1>3. ASSUME NEW v \in Vm, Remove(v) PROVE Domains'
  BY <1>3, <1>a, <1>b DEF Remove, Ending, ldap, found, history, races, End
<1>4. ASSUME NEW v \in Vm, Overlook(v) PROVE Domains'
  BY <1>4, <1>a, <1>b DEF Overlook, Ending, ldap, found, history, races, End
<1>5. CASE AddEntry
  BY <1>5, <1>a, <1>b DEF AddEntry, Ending, ldap, found, history, races, End
<1>6. CASE FindIp
  BY <1>6, <1>a, <1>b DEF FindIp, Ending, ldap, found, history, races, End
<1>7. CASE AddHost
  BY <1>7, <1>a, <1>b DEF AddHost, Ending, ldap, found, history, races, End
<1>8. CASE StartVm
  BY <1>8, <1>a, <1>b DEF StartVm, Ending, ldap, found, history, races, End
<1>9. CASE StartFails
  BY <1>9, <1>a, <1>b DEF StartFails, Ending, ldap, found, history, races, End
<1>10. CASE Record
  BY <1>10, <1>a, <1>b DEF Record, Ending, ldap, found, history, races, End
<1>11. CASE MigrateVm
  BY <1>11, <1>a, <1>b DEF MigrateVm, Ending, ldap, found, history, races, End
<1>12. CASE MigrateFails
  BY <1>12, <1>a, <1>b DEF MigrateFails, Ending, ldap, found, history, races, End
<1>13. CASE RecordDone
  BY <1>13, <1>a, <1>b DEF RecordDone, Ending, ldap, found, history, races, End
<1>14. CASE RemoveEntry
  BY <1>14, <1>a, <1>b DEF RemoveEntry, Ending, ldap, found, history, races, End
<1>15. CASE RemoveHost
  BY <1>15, <1>a, <1>b DEF RemoveHost, Ending, ldap, found, history, races, End
<1>16. CASE LdapFails
  BY <1>16, <1>a, <1>b DEF LdapFails, Ending, ldap, found, history, races, End
<1>17. CASE Restart
  BY <1>17, <1>a, <1>b DEF Restart, Ending, ldap, found, history, races, End
<1>18. ASSUME NEW v \in Machine, DomainStops(v) PROVE Domains'
  BY <1>18, <1>a, <1>b DEF DomainStops, Ending, ldap, found, history, races, End
<1>19. ASSUME NEW v \in WebVm, WebAdds(v) PROVE Domains'
  <2>1. PICK p \in (settings[1]..settings[2]) \ UsedPorts, i \in FreeIps :
           /\ sstSpicePort' = [sstSpicePort EXCEPT ![v] = p]
           /\ domain' = [domain EXCEPT ![v] = p]
           /\ dhcpHost' = dhcpHost \cup {[vm |-> v, address |-> long2ip(i)]}
           /\ racedPorts' = racedPorts \cup
                IF pc \in {"add"} \cup Migrating /\ p = port THEN {p} ELSE {}
           /\ racedAddresses' = racedAddresses \cup
                IF pc = "host" /\ long2ip(i) = ip THEN {ip} ELSE {}
    BY <1>19 DEF WebAdds
  <2>2. UNCHANGED <<pc, vm, port, astray>>
    BY <1>19 DEF WebAdds, found
  <2>3. pc \notin Ending => domain'[vm] = domain[vm]
    BY <1>a, <1>b, <2>1
  <2>4. \A w \in Machine \ astray : domain'[w] # NoPort => domain'[w] = sstSpicePort'[w]
    BY <1>a, <2>1
  <2> QED  BY <2>2, <2>3, <2>4, Zenon DEF Ending
<1>20. ASSUME NEW s \in PortSettings, SettingsChange(s) PROVE Domains'
  BY <1>20, <1>a, <1>b DEF SettingsChange, Ending, ldap, found, history, races, End
<1>21. CASE UNCHANGED vars
  BY <1>21, <1>a, <1>b DEF vars, Ending, ldap, found, history, races
<1> QED
  BY <1>1, <1>2, <1>3, <1>4, <1>5, <1>6, <1>7, <1>8, <1>9, <1>10, <1>11, <1>12,
     <1>13, <1>14, <1>15, <1>16, <1>17, <1>18, <1>19, <1>20, <1>21 DEF Next

\* DomainPortsDistinct of AddressAllocation: a domain listens on the port of
\* its entry unless it is astray, and entries have distinct ports.
THEOREM DistinctDomainPorts == Spec => []DomainPortsDistinct
<1>1. Init => Domains
  BY VmAssumption DEF Init, Domains, Cloning, Removing, Machine
<1>2. TypeOK /\ Domains /\ [Next]_vars => Domains'
  BY DomainsStep
<1>3. PortsDistinct /\ Domains => DomainPortsDistinct
  BY DEF Domains, PortsDistinct, DomainPortsDistinct
<1> QED  BY <1>1, <1>2, <1>3, TypeCorrect, DistinctPorts, PTL DEF Spec

-----------------------------------------------------------------------------
\* Limits.

LEMMA NotAnAddress == NoAddress \notin Address
  BY DEF NoAddress, Address

LEMMA Exceeded == TypeOK /\ Limits /\ MarksOutside => causes \cap {"ports", "settings"} # {}
  BY DEF TypeOK, Limits, MarksOutside, UsedPorts, Outside

LEMMA LimitsStep == TypeOK /\ Limits /\ [Next]_vars => Limits'
<1> SUFFICES ASSUME TypeOK, Limits, [Next]_vars PROVE Limits'
  OBVIOUS
<1> USE DEF Limits, FailsOnlyWhenFull, Outside, Holding, Migrating
<1>a. sstSpicePort \in [Machine -> Port]
  BY DEF TypeOK
<1>b. pc \notin Ending => vm \in Machine
  BY DEF TypeOK, Machine
<1>1. ASSUME NEW v \in Vm, Clone(v) PROVE Limits'
  <2>1. CASE MarksOutside
    BY <1>1, <2>1, Exceeded DEF Clone, FindPort, ldap, races, End, Ending
  <2>2. CASE ~MarksOutside
    <3>1. nextSpicePort \in bounds[1]..bounds[2] \/ FreePorts = {}
      BY NextPort DEF FreePorts
    <3> QED  BY <1>1, <2>2, <3>1, Zenon DEF Clone, FindPort, ldap, races
  <2> QED  BY <2>1, <2>2
<1>2. ASSUME NEW v \in Vm, Migrate(v) PROVE Limits'
  <2>1. CASE MarksOutside
    BY <1>2, <2>1, Exceeded DEF Migrate, FindPort, ldap, races, End, Ending
  <2>2. CASE ~MarksOutside
    <3>1. nextSpicePort \in bounds[1]..bounds[2] \/ FreePorts = {}
      BY NextPort DEF FreePorts
    <3> QED  BY <1>2, <2>2, <3>1, Zenon DEF Migrate, FindPort, ldap, races
  <2> QED  BY <2>1, <2>2
<1>3. ASSUME NEW v \in Vm, Remove(v) PROVE Limits'
  BY <1>3 DEF Remove, ldap, found, history, races, End
<1>4. ASSUME NEW v \in Vm, Overlook(v) PROVE Limits'
  BY <1>4 DEF Overlook, ldap, found, history, races, End
<1>5. CASE AddEntry
  BY <1>5, <1>a, <1>b DEF AddEntry, Ending, ldap, found, history, races, End
<1>6. CASE FindIp
  <2>1. CASE AssertFails
    BY <1>6, <2>1, RangeAssumption, NotAnAddress DEF FindIp, AssertFails,
       Hosts, ldap, races, End
  <2>2. CASE ~AssertFails
    <3>1. getFreeIp = NoAddress => FreeIps = {}
      BY GetFreeIp, FreeIp
    <3> QED  BY <1>6, <2>2, <3>1 DEF FindIp, ldap, races
  <2> QED  BY <2>1, <2>2
<1>7. CASE AddHost
  BY <1>7 DEF AddHost, ldap, found, history, races, End
<1>8. CASE StartVm
  BY <1>8 DEF StartVm, ldap, found, history, races, End
<1>9. CASE StartFails
  BY <1>9 DEF StartFails, ldap, found, history, races, End
<1>10. CASE Record
  BY <1>10 DEF Record, ldap, found, history, races, End
<1>11. CASE MigrateVm
  BY <1>11 DEF MigrateVm, ldap, found, history, races, End
<1>12. CASE MigrateFails
  BY <1>12 DEF MigrateFails, ldap, found, history, races, End
<1>13. CASE RecordDone
  BY <1>13, <1>a, <1>b DEF RecordDone, Ending, ldap, found, history, races, End
<1>14. CASE RemoveEntry
  BY <1>14, <1>a, <1>b DEF RemoveEntry, Ending, ldap, found, history, races, End
<1>15. CASE RemoveHost
  BY <1>15 DEF RemoveHost, ldap, found, history, races, End
<1>16. CASE LdapFails
  BY <1>16 DEF LdapFails, ldap, found, history, races, End
<1>17. CASE Restart
  BY <1>17 DEF Restart, ldap, found, history, races, End
<1>18. ASSUME NEW v \in Machine, DomainStops(v) PROVE Limits'
  BY <1>18 DEF DomainStops, ldap, found, history, races, End
<1>19. ASSUME NEW v \in WebVm, WebAdds(v) PROVE Limits'
  <2>1. PICK p \in (settings[1]..settings[2]) \ UsedPorts, i \in FreeIps :
           /\ sstSpicePort' = [sstSpicePort EXCEPT ![v] = p]
           /\ domain' = [domain EXCEPT ![v] = p]
           /\ dhcpHost' = dhcpHost \cup {[vm |-> v, address |-> long2ip(i)]}
           /\ racedPorts' = racedPorts \cup
                IF pc \in {"add"} \cup Migrating /\ p = port THEN {p} ELSE {}
           /\ racedAddresses' = racedAddresses \cup
                IF pc = "host" /\ long2ip(i) = ip THEN {ip} ELSE {}
    BY <1>19 DEF WebAdds
  <2>2. long2ip(i) # NoAddress
    BY FreeIp
  <2>3. p \in settings[1]..settings[2] /\ (Outside(p) => settings # bounds)
    BY <2>1
  <2>4. \A w \in Machine : sstSpicePort'[w] \in {sstSpicePort[w], p}
    BY <1>a, <2>1
  <2>5. UNCHANGED <<pc, ip, port, bounds, settings, causes>>
    BY <1>19 DEF WebAdds, found
  <2>6. NoAddress \in {h.address : h \in dhcpHost'} =>
          NoAddress \in {h.address : h \in dhcpHost}
    BY <2>1, <2>2
  <2>7. \A w \in Machine : Outside(sstSpicePort'[w]) =>
          causes \cap {"ports", "settings"} # {}
    BY <2>3, <2>4
  <2>8. UNCHANGED <<FailsOnlyWhenFull, pc, ip, port, bounds, settings, causes>>
    BY <2>5
  <2> QED  BY <2>5, <2>6, <2>7, <2>8
<1>20. ASSUME NEW s \in PortSettings, SettingsChange(s) PROVE Limits'
  BY <1>20 DEF SettingsChange, ldap, found, history, races, End
<1>21. CASE UNCHANGED vars
  BY <1>21 DEF vars, ldap, found, history, races
<1> QED
  BY <1>1, <1>2, <1>3, <1>4, <1>5, <1>6, <1>7, <1>8, <1>9, <1>10, <1>11, <1>12,
     <1>13, <1>14, <1>15, <1>16, <1>17, <1>18, <1>19, <1>20, <1>21 DEF Next

\* FailsOnlyWhenFull of AddressAllocation: neither the assertion in ip2long nor
\* the array of marks fails while there are ports and addresses enough and
\* their bounds stay.
THEOREM FailureNeedsShortage == Spec => []FailsOnlyWhenFull
<1>1. Init => Limits
  BY DEF Init, Limits, FailsOnlyWhenFull, Outside, Holding, Migrating
<1>2. TypeOK /\ Limits /\ [Next]_vars => Limits'
  BY LimitsStep
<1>3. Limits => FailsOnlyWhenFull
  BY DEF Limits
<1> QED  BY <1>1, <1>2, <1>3, TypeCorrect, PTL DEF Spec

-----------------------------------------------------------------------------
\* Addresses.

LEMMA AddressesStep == TypeOK /\ Domains /\ Addresses /\ [Next]_vars => Addresses'
<1> SUFFICES ASSUME TypeOK, Domains, Addresses, [Next]_vars PROVE Addresses'
  OBVIOUS
<1> USE DEF Addresses, AddressesDistinct, Proper, HasHost
<1>a. domain \in [Machine -> Port]
  BY DEF TypeOK
<1>b. pc \notin Ending => vm \in Machine
  BY DEF TypeOK, Machine
<1>1. ASSUME NEW v \in Vm, Clone(v) PROVE Addresses'
  <2>1. CASE MarksOutside
    BY <1>1, <2>1 DEF Clone, FindPort, ldap, races, End
  <2>2. CASE ~MarksOutside
    BY <1>1, <2>2 DEF Clone, FindPort, ldap, races
  <2> QED  BY <2>1, <2>2
<1>2. ASSUME NEW v \in Vm, Migrate(v) PROVE Addresses'
  <2>1. CASE MarksOutside
    BY <1>2, <2>1 DEF Migrate, FindPort, ldap, races, End
  <2>2. CASE ~MarksOutside
    BY <1>2, <2>2 DEF Migrate, FindPort, ldap, races
  <2> QED  BY <2>1, <2>2
<1>3. ASSUME NEW v \in Vm, Remove(v) PROVE Addresses'
  BY <1>3, <1>a, <1>b DEF Remove, Ending, ldap, found, history, races, End
<1>4. ASSUME NEW v \in Vm, Overlook(v) PROVE Addresses'
  BY <1>4, <1>a, <1>b DEF Overlook, Ending, ldap, found, history, races, End
<1>5. CASE AddEntry
  BY <1>5, <1>a, <1>b DEF AddEntry, Ending, ldap, found, history, races, End
<1>6. CASE FindIp
  <2>1. CASE AssertFails
    BY <1>6, <2>1 DEF FindIp, ldap, races, End
  <2>2. CASE ~AssertFails
    <3>1. UNCHANGED <<ldap, domain, astray, races>> /\ pc' = "host" /\ ip' = getFreeIp
      BY <1>6, <2>2 DEF FindIp
    <3>2. "addresses" \in causes => "addresses" \in causes'
      BY <1>6, <2>2 DEF FindIp
    <3>3. Proper(ip)' /\ \A h \in dhcpHost : h.address # ip'
      <4>1. CASE FreeIps = {}
        <5>1. ip' = NoAddress /\ "addresses" \in causes'
          BY <1>6, <2>2, <4>1, GetFreeIp DEF FindIp
        <5>2. \A h \in dhcpHost : h.address # NoAddress
          BY <2>2 DEF AssertFails, Hosts
        <5> QED  BY <5>1, <5>2
      <4>2. CASE FreeIps # {}
        BY <3>1, <4>2, GetFreeIp, FreeIp, Zenon
      <4> QED  BY <4>1, <4>2
    <3> QED  BY <3>1, <3>2, <3>3 DEF ldap, races
  <2> QED  BY <2>1, <2>2
<1>7. CASE AddHost
  <2>1. dhcpHost' = dhcpHost \cup {[vm |-> vm, address |-> ip]} /\ pc = "host" /\ pc' = "start"
    BY <1>7 DEF AddHost
  <2>2. UNCHANGED <<vm, ip, domain, astray, racedAddresses, causes>>
    BY <1>7 DEF AddHost, found, history, races
  <2>3. \A h, g \in dhcpHost' : h.address = g.address => h = g \/ h.address \in racedAddresses
    BY <2>1
  <2>4. \A h \in dhcpHost' : Proper(h.address)
    BY <2>1
  <2>5. \A w \in Machine : HasHost(w) => HasHost(w)'
    BY <2>1
  <2>6. HasHost(vm)'
    <3> DEFINE new == [vm |-> vm, address |-> ip]
    <3>1. new \in dhcpHost' /\ new.vm = vm /\ vm' = vm
      BY <2>1, <2>2
    <3> HIDE DEF new
    <3> QED  BY <3>1, Zenon
  <2> QED  BY <2>1, <2>2, <2>3, <2>4, <2>5, <2>6
<1>8. CASE StartVm
  BY <1>8, <1>a, <1>b DEF StartVm, Ending, ldap, found, history, races, End
<1>9. CASE StartFails
  BY <1>9, <1>a, <1>b DEF StartFails, Ending, ldap, found, history, races, End
<1>10. CASE Record
  BY <1>10, <1>a, <1>b DEF Record, Ending, ldap, found, history, races, End
<1>11. CASE MigrateVm
  BY <1>11, <1>a, <1>b DEF MigrateVm, Ending, ldap, found, history, races, End
<1>12. CASE MigrateFails
  BY <1>12, <1>a, <1>b DEF MigrateFails, Ending, ldap, found, history, races, End
<1>13. CASE RecordDone
  BY <1>13, <1>a, <1>b DEF RecordDone, Ending, ldap, found, history, races, End
<1>14. CASE RemoveEntry
  BY <1>14, <1>a, <1>b DEF RemoveEntry, Ending, ldap, found, history, races, End
<1>15. CASE RemoveHost
  <2>1. domain[vm] = NoPort \/ vm \in astray
    BY <1>15 DEF RemoveHost, Domains, Removing
  <2>2. dhcpHost' = {h \in dhcpHost : h.vm # vm} /\ pc' = "idle"
    BY <1>15 DEF RemoveHost, End
  <2>3. UNCHANGED <<domain, astray, causes, racedAddresses>>
    BY <1>15 DEF RemoveHost, history, races
  <2>4. \A w \in Machine \ astray : domain[w] # NoPort => HasHost(w)'
    BY <2>1, <2>2
  <2> QED  BY <2>2, <2>3, <2>4
<1>16. CASE LdapFails
  BY <1>16, <1>a, <1>b DEF LdapFails, Ending, ldap, found, history, races, End
<1>17. CASE Restart
  BY <1>17, <1>a, <1>b DEF Restart, Ending, ldap, found, history, races, End
<1>18. ASSUME NEW v \in Machine, DomainStops(v) PROVE Addresses'
  BY <1>18, <1>a, <1>b DEF DomainStops, Ending, ldap, found, history, races, End
<1>19. ASSUME NEW v \in WebVm, WebAdds(v) PROVE Addresses'
  <2>1. PICK p \in (settings[1]..settings[2]) \ UsedPorts, i \in FreeIps :
           /\ sstSpicePort' = [sstSpicePort EXCEPT ![v] = p]
           /\ domain' = [domain EXCEPT ![v] = p]
           /\ dhcpHost' = dhcpHost \cup {[vm |-> v, address |-> long2ip(i)]}
           /\ racedPorts' = racedPorts \cup
                IF pc \in {"add"} \cup Migrating /\ p = port THEN {p} ELSE {}
           /\ racedAddresses' = racedAddresses \cup
                IF pc = "host" /\ long2ip(i) = ip THEN {ip} ELSE {}
    BY <1>19 DEF WebAdds
  <2> DEFINE new == [vm |-> v, address |-> long2ip(i)]
  <2>2. UNCHANGED <<pc, vm, ip, astray, causes>>
    BY <1>19 DEF WebAdds, found
  <2>3. /\ \A h \in dhcpHost : h.address # new.address
        /\ Proper(new.address)
    BY FreeIp
  <2>4. \A h, g \in dhcpHost' : h.address = g.address => h = g \/ h.address \in racedAddresses'
    BY <2>1, <2>3
  <2>5. \A h \in dhcpHost' : Proper(h.address)
    BY <2>1, <2>3
  <2>6. \A w \in Machine : HasHost(w) => HasHost(w)'
    BY <2>1
  <2>7. HasHost(v)'
    <3>1. new \in dhcpHost' /\ new.vm = v
      BY <2>1
    <3> HIDE DEF new
    <3> QED  BY <3>1, Zenon
  <2>8. \A w \in Machine \ astray : domain'[w] # NoPort => HasHost(w)'
    BY <2>1, <2>6, <2>7, <1>a
  <2>9. pc = "host" => \A h \in dhcpHost' : h.address = ip => ip \in racedAddresses'
    BY <2>1
  <2> QED  BY <2>2, <2>4, <2>5, <2>6, <2>8, <2>9, <1>b DEF Ending
<1>20. ASSUME NEW s \in PortSettings, SettingsChange(s) PROVE Addresses'
  BY <1>20, <1>a, <1>b DEF SettingsChange, Ending, ldap, found, history, races, End
<1>21. CASE UNCHANGED vars
  BY <1>21, <1>a, <1>b DEF vars, Ending, ldap, found, history, races
<1> QED
  BY <1>1, <1>2, <1>3, <1>4, <1>5, <1>6, <1>7, <1>8, <1>9, <1>10, <1>11, <1>12,
     <1>13, <1>14, <1>15, <1>16, <1>17, <1>18, <1>19, <1>20, <1>21 DEF Next

\* AddressesDistinct of AddressAllocation holds for every range and netmask:
\* long2ip and ip2long are inverse to each other where they are used.
THEOREM DistinctAddresses == Spec => []AddressesDistinct
<1>1. Init => Addresses
  BY DEF Init, Addresses, AddressesDistinct
<1>2. TypeOK /\ Domains /\ Addresses /\ [Next]_vars => Addresses'
  BY AddressesStep
<1>3. Addresses => AddressesDistinct
  BY DEF Addresses
<1>4. Init => Domains
  BY VmAssumption DEF Init, Domains, Cloning, Removing, Machine
<1> QED  BY <1>1, <1>2, <1>3, <1>4, TypeCorrect, DomainsStep, PTL DEF Spec
=============================================================================
