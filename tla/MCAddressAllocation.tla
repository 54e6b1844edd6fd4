------------------------- MODULE MCAddressAllocation -------------------------
(* Two bounds that overlap, three ports each, and a range with three free     *)
(* addresses that do not lie side by side.                                    *)
EXTENDS AddressAllocation, TLC

MCPortSettings == {<<5900, 5902>>, <<5901, 5903>>}
MCRange == [parts |-> <<10, 0, 1>>, netmask |-> 29]
MCRouter == <<10, 0, 1, 2>>
MCReserved == {<<10, 0, 1, 1>>, <<10, 0, 1, 4>>}

\* Names are as good as each other.
Names == Permutations(Vm) \cup Permutations(WebVm)
=============================================================================
