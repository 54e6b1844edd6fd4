-------------------------- MODULE AddressAllocation --------------------------
(***************************************************************************)
(* The ports and addresses fc-brokerd hands out.  nextSpicePort takes the  *)
(* first port no entry has, getFreeIp the first address of the range that  *)
(* is neither the router's nor in a DHCP entry.  Nothing reserves what is  *)
(* found until the entry is written, and the web manager, which adds       *)
(* machines of its own, takes ports and addresses the same way.  Domains   *)
(* listen on ports, the search looks at entries: of a migration they name  *)
(* the new port as sstMigrationSpicePort, which the search ignores.        *)
(*                                                                         *)
(* One range.  Ports are handed out as if all nodes were one.              *)
(***************************************************************************)
EXTENDS Integers, Sequences, FiniteSets

CONSTANTS
  Vm,            \* names (UUIDs) for the pool's machines
  WebVm,         \* names for machines of the web manager
  PortSettings,  \* values of <<sstSpicePortMin, sstSpicePortMax>>
  Range,         \* the pool's range: its parts before the "/", and its netmask
  Router,        \* the subnet's router
  Reserved,      \* fixed addresses of other hosts of the subnet
  NoVm,
  MaxEvents      \* bound: faults, and what others do

ASSUME VmAssumption == Vm \cap WebVm = {} /\ NoVm \notin Vm \cup WebVm
ASSUME EventsAssumption == MaxEvents \in Nat
ASSUME PortAssumption ==
  PortSettings # {} /\ \A s \in PortSettings : s \in (Nat \ {0}) \X (Nat \ {0})

Machine == Vm \cup WebVm
NoPort == -1
Port == Nat \cup {NoPort}

\* An address has four parts; the empty one is what getFreeIp returns when
\* there is none.
Address == [1..4 -> Nat]
NoAddress == <<>>

VARIABLES
  sstSpicePort,          \* LDAP: of each machine, NoPort without an entry
  sstMigrationSpicePort, \* LDAP: likewise, NoPort without the attribute
  dhcpHost,              \* LDAP: machines with their fixed addresses
  settings,              \* LDAP: the bounds of ports
  bounds,                \* Config: what the process has read of them
  domain,                \* libvirt: the port each machine listens on
  pc, vm, port, ip,      \* the broker's step, its machine, what it has found
  astray,                \* history: machines whose domain is not as in its entry
  racedPorts,            \* history: ports others took after they had been found
  racedAddresses,        \* history: likewise addresses
  causes,                \* history: what has run out, or changed
  events

ldap == <<sstSpicePort, sstMigrationSpicePort, dhcpHost, settings>>
found == <<vm, port, ip>>
races == <<racedPorts, racedAddresses>>
history == <<astray, races, causes>>
vars == <<ldap, bounds, domain, pc, found, history, events>>

Ending == {"idle", "aborted", "undefined"}
Cloning == {"add", "address", "host", "start"}
Migrating == {"record", "migrate", "done"}
Removing == {"remove", "remove host"}

TypeOK ==
  /\ sstSpicePort \in [Machine -> Port] /\ sstMigrationSpicePort \in [Machine -> Port]
  /\ dhcpHost \subseteq [vm : Machine, address : Address \cup {NoAddress}]
  /\ settings \in PortSettings /\ bounds \in PortSettings
  /\ domain \in [Machine -> Port]
  /\ pc \in Ending \cup Cloning \cup Migrating \cup Removing
  /\ vm \in Vm \cup {NoVm} /\ (pc \notin Ending => vm \in Vm)
  /\ port \in Port /\ ip \in Address \cup {NoAddress}
  /\ astray \subseteq Machine
  /\ racedPorts \subseteq Nat /\ racedAddresses \subseteq Address
  /\ causes \subseteq {"ports", "addresses", "settings"}
  /\ events \in 0..MaxEvents

Init ==
  /\ sstSpicePort = [v \in Machine |-> NoPort]
  /\ sstMigrationSpicePort = [v \in Machine |-> NoPort]
  /\ dhcpHost = {}
  /\ settings \in PortSettings /\ bounds = settings
  /\ domain = [v \in Machine |-> NoPort]
  /\ pc = "idle" /\ vm = NoVm /\ port = NoPort /\ ip = NoAddress
  /\ astray = {} /\ racedPorts = {} /\ racedAddresses = {} /\ causes = {} /\ events = 0

Event == events < MaxEvents /\ events' = events + 1

\* The operation ends, and what it has found is forgotten.
End(how) == pc' = how /\ vm' = NoVm /\ port' = NoPort /\ ip' = NoAddress

-----------------------------------------------------------------------------
\* The range, and what is free.

\* NetworkRange::ip2long and long2ip.
ip2long(a) == ((a[1] * 256 + a[2]) * 256 + a[3]) * 256 + a[4]

\* Mutant of long2ip: one part too few.
long2ipThree(val) ==
  <<val \div 16777216, (val \div 65536) % 256, (val \div 256) % 256>>

long2ip(val) ==
  LET k1 == val \div 16777216
      k2 == (val - 16777216 * k1) \div 65536
      k3 == (val - 16777216 * k1 - 65536 * k2) \div 256
      k4 == val - 16777216 * k1 - 65536 * k2 - 256 * k3
  IN  <<k1, k2, k3, k4>>

\* The constructor of NetworkRange: missing parts are 0, network and broadcast
\* the first and last address with the bits of the netmask.
rangeAddress == [i \in 1..4 |-> IF i <= Len(Range.parts) THEN Range.parts[i] ELSE 0]
wildcard == 2 ^ (32 - Range.netmask) - 1
network == ip2long(rangeAddress) - (ip2long(rangeAddress) % (wildcard + 1))
broadcast == network + wildcard
hostmin == network + 1
hostmax == broadcast - 1

ASSUME RangeAssumption ==
  /\ Range.parts \in Seq(Nat) /\ Range.netmask \in 2..32 /\ wildcard \in Nat
  /\ Router \in Address /\ Reserved \subseteq Address

Hosts == {h.address : h \in dhcpHost} \cup Reserved

\* ip2long asserts that there are four parts.
AssertFails == NoAddress \in Hosts

\* Mutant of ips: the router's address counts as free.
ipsOfHosts == {ip2long(a) : a \in Hosts \ {NoAddress}}

ips == {ip2long(a) : a \in (Hosts \cup {Router}) \ {NoAddress}}

FreeIps == {i \in hostmin..hostmax : i \notin ips}

getFreeIp ==
  IF FreeIps = {} THEN NoAddress
  ELSE long2ip(CHOOSE i \in FreeIps : \A j \in FreeIps : i <= j)

UsedPorts == {sstSpicePort[v] : v \in Machine} \ {NoPort}

\* Mutant of FreePorts: one port too many.
FreePortsAndOne == (bounds[1]..bounds[2] + 1) \ UsedPorts

FreePorts == (bounds[1]..bounds[2]) \ UsedPorts

\* The array of marks has a place for the ports within the bounds only.
MarksOutside == \E p \in UsedPorts : p \notin bounds[1]..bounds[2]

\* Mutant of nextSpicePort: the number of ports in use, taken for the next one.
nextSpicePortAfter ==
  IF FreePorts = {} THEN 0 ELSE bounds[1] + Cardinality(UsedPorts)

nextSpicePort ==
  IF FreePorts = {} THEN 0 ELSE CHOOSE p \in FreePorts : \A q \in FreePorts : p <= q

\* The search for a port, of machine v, and what comes next.
FindPort(v, next) ==
  /\ IF MarksOutside
     THEN End("undefined") /\ UNCHANGED causes
     ELSE /\ pc' = next /\ vm' = v
          /\ port' = nextSpicePort /\ UNCHANGED ip
          /\ causes' = causes \cup (IF FreePorts = {} THEN {"ports"} ELSE {})

-----------------------------------------------------------------------------
\* LdapTools::cloneVm and VmFactory::createInstance.

Clone(v) ==
  /\ pc = "idle" /\ v \in Vm
  /\ sstSpicePort[v] = NoPort /\ domain[v] = NoPort /\ \A h \in dhcpHost : h.vm # v
  /\ FindPort(v, "add")
  /\ UNCHANGED <<ldap, bounds, domain, astray, races, events>>

AddEntry ==
  /\ pc = "add" /\ pc' = "address"
  /\ sstSpicePort' = [sstSpicePort EXCEPT ![vm] = port]
  /\ UNCHANGED <<sstMigrationSpicePort, dhcpHost, settings, bounds, domain, found,
                 history, events>>

FindIp ==
  /\ pc = "address"
  /\ IF AssertFails
     THEN End("aborted") /\ UNCHANGED causes
     ELSE /\ pc' = "host" /\ ip' = getFreeIp /\ UNCHANGED <<vm, port>>
          /\ causes' = causes \cup (IF FreeIps = {} THEN {"addresses"} ELSE {})
  /\ UNCHANGED <<ldap, bounds, domain, astray, races, events>>

AddHost ==
  /\ pc = "host" /\ pc' = "start"
  /\ dhcpHost' = dhcpHost \cup {[vm |-> vm, address |-> ip]}
  /\ UNCHANGED <<sstSpicePort, sstMigrationSpicePort, settings, bounds, domain, found,
                 history, events>>

\* The machine is read again from LDAP and started.
StartVm ==
  /\ pc = "start" /\ End("idle")
  /\ domain' = [domain EXCEPT ![vm] = sstSpicePort[vm]]
  /\ UNCHANGED <<ldap, bounds, history, events>>

StartFails ==
  /\ pc = "start" /\ Event /\ pc' = "remove"
  /\ UNCHANGED <<ldap, bounds, domain, found, history>>

-----------------------------------------------------------------------------
\* Vm::migrate.

Migrate(v) ==
  /\ pc = "idle" /\ v \in Vm
  /\ sstSpicePort[v] # NoPort /\ domain[v] # NoPort
  /\ FindPort(v, "record")
  /\ UNCHANGED <<ldap, bounds, domain, astray, races, events>>

Record ==
  /\ pc = "record" /\ pc' = "migrate"
  /\ sstMigrationSpicePort' = [sstMigrationSpicePort EXCEPT ![vm] = port]
  /\ UNCHANGED <<sstSpicePort, dhcpHost, settings, bounds, domain, found, history, events>>

\* The domain is looked for on the node of the entry.
MigrateVm ==
  /\ pc = "migrate" /\ domain[vm] # NoPort /\ vm \notin astray
  /\ pc' = "done"
  /\ domain' = [domain EXCEPT ![vm] = port]
  /\ astray' = astray \cup {vm}
  /\ UNCHANGED <<ldap, bounds, found, races, causes, events>>

\* VirtException: the attributes of the migration stay.
MigrateFails ==
  /\ pc = "migrate" /\ End("idle")
  /\ \/ (domain[vm] = NoPort \/ vm \in astray) /\ UNCHANGED events
     \/ Event
  /\ UNCHANGED <<ldap, bounds, domain, history>>

\* Mutant of RecordDone: the new port is not written.
RecordDoneNode ==
  /\ pc = "done" /\ End("idle")
  /\ sstMigrationSpicePort' = [sstMigrationSpicePort EXCEPT ![vm] = NoPort]
  /\ astray' = astray \ {vm}
  /\ UNCHANGED <<sstSpicePort, dhcpHost, settings, bounds, domain, races, causes, events>>

RecordDone ==
  /\ pc = "done" /\ End("idle")
  /\ sstSpicePort' = [sstSpicePort EXCEPT ![vm] = port]
  /\ sstMigrationSpicePort' = [sstMigrationSpicePort EXCEPT ![vm] = NoPort]
  /\ astray' = astray \ {vm}
  /\ UNCHANGED <<dhcpHost, settings, bounds, domain, races, causes, events>>

-----------------------------------------------------------------------------
\* checkVmsPerNode and Vm::remove.

\* No node has a domain of this name.
Remove(v) ==
  /\ pc = "idle" /\ v \in Vm /\ sstSpicePort[v] # NoPort
  /\ domain[v] = NoPort
  /\ pc' = "remove" /\ vm' = v
  /\ UNCHANGED <<ldap, bounds, domain, port, ip, history, events>>

\* A domain libvirt does not hand over when asked (virDomainLookupByID).
Overlook(v) ==
  /\ pc = "idle" /\ v \in Vm /\ sstSpicePort[v] # NoPort
  /\ domain[v] # NoPort /\ Event
  /\ pc' = "remove" /\ vm' = v
  /\ astray' = astray \cup {v}
  /\ UNCHANGED <<ldap, bounds, domain, port, ip, races, causes>>

RemoveEntry ==
  /\ pc = "remove" /\ pc' = "remove host"
  /\ sstSpicePort' = [sstSpicePort EXCEPT ![vm] = NoPort]
  /\ sstMigrationSpicePort' = [sstMigrationSpicePort EXCEPT ![vm] = NoPort]
  /\ UNCHANGED <<dhcpHost, settings, bounds, domain, found, history, events>>

RemoveHost ==
  /\ pc = "remove host" /\ End("idle")
  /\ dhcpHost' = {h \in dhcpHost : h.vm # vm}
  /\ UNCHANGED <<sstSpicePort, sstMigrationSpicePort, settings, bounds, domain, history, events>>

-----------------------------------------------------------------------------
\* Faults, and the rest of the world.

\* LDAP fails: what has been done stays.  That the range itself has an entry is
\* presumed; without one AddHost would be passed over in silence.
LdapFails ==
  /\ pc \notin Ending /\ Event /\ End("idle")
  /\ UNCHANGED <<ldap, bounds, domain, history>>

\* The broker is stopped, or dies, and is started again.
Restart ==
  /\ Event /\ End("idle")
  /\ bounds' = settings
  /\ UNCHANGED <<ldap, domain, history>>

DomainStops(v) ==
  /\ Event /\ domain[v] # NoPort
  /\ domain' = [domain EXCEPT ![v] = NoPort]
  /\ astray' = astray \ {v}
  /\ UNCHANGED <<ldap, bounds, pc, found, races, causes>>

\* The web manager adds a machine and starts it.
WebAdds(v) ==
  /\ Event /\ v \in WebVm /\ sstSpicePort[v] = NoPort /\ domain[v] = NoPort
  /\ \E p \in (settings[1]..settings[2]) \ UsedPorts : \E i \in FreeIps :
       /\ sstSpicePort' = [sstSpicePort EXCEPT ![v] = p]
       /\ domain' = [domain EXCEPT ![v] = p]
       /\ dhcpHost' = dhcpHost \cup {[vm |-> v, address |-> long2ip(i)]}
       /\ racedPorts' = racedPorts \cup
            IF pc \in {"add"} \cup Migrating /\ p = port THEN {p} ELSE {}
       /\ racedAddresses' = racedAddresses \cup
            IF pc = "host" /\ long2ip(i) = ip THEN {ip} ELSE {}
  /\ UNCHANGED <<sstMigrationSpicePort, settings, bounds, pc, found, astray, causes>>

SettingsChange(s) ==
  /\ Event /\ s # settings
  /\ settings' = s
  /\ causes' = causes \cup {"settings"}
  /\ UNCHANGED <<sstSpicePort, sstMigrationSpicePort, dhcpHost, bounds, domain, pc, found,
                 astray, races>>

Next ==
  \/ \E v \in Vm : Clone(v) \/ Migrate(v) \/ Remove(v) \/ Overlook(v)
  \/ AddEntry \/ FindIp \/ AddHost \/ StartVm \/ StartFails
  \/ Record \/ MigrateVm \/ MigrateFails \/ RecordDone
  \/ RemoveEntry \/ RemoveHost
  \/ LdapFails \/ Restart
  \/ \E v \in Machine : DomainStops(v)
  \/ \E v \in WebVm : WebAdds(v)
  \/ \E s \in PortSettings : SettingsChange(s)

Spec == Init /\ [][Next]_vars

-----------------------------------------------------------------------------

\* Two entries have the same port only if the web manager took it while the
\* broker was between its search and its entry: ports are not lost or handed
\* out twice by migrations, removals and what fails in them.
PortsDistinct ==
  \A v, w \in Machine :
    v # w /\ sstSpicePort[v] # NoPort /\ sstSpicePort[v] = sstSpicePort[w] =>
      sstSpicePort[v] \in racedPorts

\* Nor do two domains, of which none is astray: migrated without LDAP having
\* been told in the end, or removed though it runs.
DomainPortsDistinct ==
  \A v, w \in Machine \ astray :
    v # w /\ domain[v] # NoPort /\ domain[v] = domain[w] => domain[v] \in racedPorts

\* A machine that runs has an address of its own, in the range and not the
\* router's, unless the range has been full; entries that are left over keep
\* theirs.
AddressesDistinct ==
  /\ \A h, g \in dhcpHost : h.address = g.address => h = g \/ h.address \in racedAddresses
  /\ \A h \in dhcpHost :
       \/ h.address = NoAddress /\ "addresses" \in causes
       \/ h.address # Router /\ ip2long(h.address) \in hostmin..hostmax
  /\ \A v \in Machine \ astray : domain[v] # NoPort => \E h \in dhcpHost : h.vm = v

\* The assertion in ip2long only fails after the range has been full, and the
\* array of marks is only left after the ports have been used up or the bounds
\* have been changed.
FailsOnlyWhenFull ==
  /\ pc = "aborted" => "addresses" \in causes
  /\ pc = "undefined" => causes \cap {"ports", "settings"} # {}
=============================================================================
