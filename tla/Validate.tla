------------------------------ MODULE Validate -------------------------------
(***************************************************************************)
(* is_global_unicast: which addresses may reach the firewall.  A 32-bit    *)
(* address is four octets, most significant first; masks and shifts are    *)
(* taken bit by bit, bit 0 being the least significant one.                *)
(*                                                                         *)
(* This is what stands behind the parameter Global of Plan.                *)
(***************************************************************************)
EXTENDS Integers

CONSTANTS
    Octets,     \* per position 1..4, the octets of the addresses looked at
    Networks    \* networks to try the mask arithmetic on, with every length

Octet == 0 .. 255
PrefixLen == 0 .. 32

ASSUME OctetsAssumption == \A k \in 1 .. 4 : Octets[k] # {} /\ Octets[k] \subseteq Octet
ASSUME NetworksAssumption == \A net \in Networks : \A k \in 1 .. 4 : net[k] \in Octet

VARIABLE ip     \* the address to be judged, or None

None == <<>>

-----------------------------------------------------------------------------
(* The code.                                                               *)

(* Bit i of u32::from(ip).                                                 *)
Bit(a, i) == (a[4 - (i \div 8)] \div 2 ^ (i % 8)) % 2

(* Bit i of u32::MAX << s, for a shift s < 32.                             *)
Shifted(s, i) == IF i >= s THEN 1 ELSE 0

(* Mutant: the mask is one bit too long.                                   *)
in_range_LongMask(a, net, prefix_len) ==
    \/ prefix_len = 0
    \/ \A i \in 0 .. 31 : Shifted(31 - prefix_len, i) * Bit(a, i)
                            = Shifted(31 - prefix_len, i) * Bit(net, i)

(* (ip & mask) == (net & mask); a shift by 32 is avoided.                  *)
in_range(a, net, prefix_len) ==
    \/ prefix_len = 0
    \/ \A i \in 0 .. 31 : Shifted(32 - prefix_len, i) * Bit(a, i)
                            = Shifted(32 - prefix_len, i) * Bit(net, i)

(* One entry of the table.                                                 *)
Block(net, len) == [net |-> net, len |-> len]

SPECIAL_RANGES ==
    { Block(<<0, 0, 0, 0>>, 8), Block(<<10, 0, 0, 0>>, 8),
      Block(<<100, 64, 0, 0>>, 10), Block(<<127, 0, 0, 0>>, 8),
      Block(<<169, 254, 0, 0>>, 16), Block(<<172, 16, 0, 0>>, 12),
      Block(<<192, 0, 0, 0>>, 24), Block(<<192, 0, 2, 0>>, 24),
      Block(<<192, 88, 99, 0>>, 24), Block(<<192, 168, 0, 0>>, 16),
      Block(<<198, 18, 0, 0>>, 15), Block(<<198, 51, 100, 0>>, 24),
      Block(<<203, 0, 113, 0>>, 24), Block(<<224, 0, 0, 0>>, 4),
      Block(<<240, 0, 0, 0>>, 4) }

is_global_unicast(a) == ~ \E r \in SPECIAL_RANGES : in_range(a, r.net, r.len)

-----------------------------------------------------------------------------
(* One address after another.                                              *)

ValidateInit == ip = None

ValidateNext == \/ ip = None /\ ip' = <<0, 0, 0, 0>>
                \/ ip # None /\ \E k \in 1 .. 4 : \E o \in Octets[k] : ip' = [ip EXCEPT ![k] = o]

ValidateSpec == ValidateInit /\ [][ValidateNext]_ip

-----------------------------------------------------------------------------
(* Correctness.                                                            *)

(* The special-purpose blocks by first and last octets, as their           *)
(* registrations state them.                                               *)
SpecialPurpose(a) ==
    \/ a[1] \in {0, 10, 127} \cup 224 .. 255
    \/ a[1] = 100 /\ a[2] \in 64 .. 127
    \/ a[1] = 172 /\ a[2] \in 16 .. 31
    \/ a[1] = 169 /\ a[2] = 254
    \/ a[1] = 192 /\ a[2] = 168
    \/ a[1] = 198 /\ a[2] \in 18 .. 19
    \/ a[1] = 192 /\ a[2] = 0 /\ a[3] \in {0, 2}
    \/ a[1] = 192 /\ a[2] = 88 /\ a[3] = 99
    \/ a[1] = 198 /\ a[2] = 51 /\ a[3] = 100
    \/ a[1] = 203 /\ a[2] = 0 /\ a[3] = 113

(* Exactly the addresses outside the special-purpose blocks are accepted:  *)
(* no loopback, link-local, private, shared, documentation, multicast or   *)
(* reserved address passes at either end of a block, and no neighbour of a *)
(* block is refused (is_global_unicast).                                   *)
ExactlyTheSpecialBlocks == ip # None => (is_global_unicast(ip) <=> ~SpecialPurpose(ip))

Below(a, b) == \E k \in 1 .. 4 : a[k] < b[k] /\ \A j \in 1 .. k - 1 : a[j] = b[j]

(* Octet k of the first and of the last address of net/len.                *)
Host(len, k) == CASE len >= 8 * k       -> 1
                  [] len <= 8 * (k - 1) -> 256
                  [] OTHER              -> 2 ^ (8 * k - len)
FirstOf(net, len) == [k \in 1 .. 4 |-> net[k] - (net[k] % Host(len, k))]
LastOf(net, len) == [k \in 1 .. 4 |-> FirstOf(net, len)[k] + Host(len, k) - 1]

(* The mask arithmetic selects an interval: an address is in net/len       *)
(* exactly if it lies between the first and the last address of the block, *)
(* for every length from 0 to 32 and also if host bits of net are set      *)
(* (in_range).                                                             *)
InRangeIsInterval ==
    ip # None => \A net \in Networks, len \in PrefixLen :
        in_range(ip, net, len) <=> ~Below(ip, FirstOf(net, len)) /\ ~Below(LastOf(net, len), ip)

(* Mask by mask and as a whole, the check refuses the special-purpose      *)
(* blocks and nothing else (is_global_unicast, in_range).                  *)
AddressCheckExact == InRangeIsInterval /\ ExactlyTheSpecialBlocks

=============================================================================
