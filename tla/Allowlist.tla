---- MODULE Allowlist ----
(***************************************************************************)
(* Who may connect (src/src/dashboard/net.rs): rules of --allow, masks and *)
(* the loopback exception, over addresses short enough to try them all.    *)
(* An IPv4 address has W4 bits and an IPv6 address W6; of the latter, those*)
(* with MappedTag in front of W4 bits stand for an IPv4 address (::ffff:). *)
(***************************************************************************)
EXTENDS Integers, Sequences

CONSTANTS W4, W6,    \* bits of an address: 32 and 128
          MappedTag, \* ::ffff
          Loop4      \* the IPv4 addresses of this machine, 127.0.0.0/8

(* 1 << n                                                                  *)
Power2[n \in Nat] == IF n = 0 THEN 1 ELSE 2 * Power2[n - 1]

Width(fam) == IF fam = 4 THEN W4 ELSE W6
V4 == [fam : {4}, bits : 0..(Power2[W4] - 1)]
V6 == [fam : {6}, bits : 0..(Power2[W6] - 1)]
Address == V4 \cup V6

ASSUME AllowlistAssumption == /\ W4 \in Nat \ {0} /\ W6 \in Nat /\ W6 > W4
                              /\ MappedTag \in 1..(Power2[W6 - W4] - 1) /\ Loop4 \subseteq V4

(* IpAddr::to_canonical.  Slip: it is left out.                             *)
AsItCame(ip) == ip
Canonical(ip) == IF ip.fam = 6 /\ ip.bits \div Power2[W4] = MappedTag
                 THEN [fam |-> 4, bits |-> ip.bits % Power2[W4]] ELSE ip
Loopback(ip) == ip \in Loop4 \/ ip = [fam |-> 6, bits |-> 1]
----------------------------------------------------------------------------
(* Cidr::parse, once the text is taken apart: no prefix is a single host,   *)
(* and one longer than the canonical address is refused.                    *)
NoPrefix == -1
Refused == [fam |-> 0, bits |-> 0, prefix |-> 0]
Parse(addr, prefix) ==
  LET base == Canonical(addr)
      p    == IF prefix = NoPrefix THEN Width(base.fam) ELSE prefix
  IN IF p > Width(base.fam) THEN Refused
     ELSE [fam |-> base.fam, bits |-> base.bits, prefix |-> p]
Cidr == {Parse(a, p) : a \in Address, p \in {NoPrefix} \cup 0..W6} \ {Refused}

(* mask_v4, mask_v6: bits & (MAX << n) clears the n low bits.               *)
Cleared(bits, n) == bits - (bits % Power2[n])
(* Slip: no case of its own for 0, and a shift by the width shifts nothing. *)
MaskWrapping(bits, w, prefix) == Cleared(bits, (w - prefix) % w)
Mask(bits, w, prefix) == IF prefix = 0 THEN 0 ELSE Cleared(bits, w - prefix)

Contains(rule, addr) ==
  LET ip == Canonical(addr)  w == Width(rule.fam)
  IN /\ rule.fam = ip.fam
     /\ Mask(rule.bits, w, rule.prefix) = Mask(ip.bits, w, rule.prefix)

Permits(rules, ip) == \/ Loopback(Canonical(ip))
                      \/ rules = <<>>
                      \/ \E i \in DOMAIN rules : Contains(rules[i], ip)

(* suggest_subnet: all but the last byte (here, bit) of an IPv4 address.    *)
Suggested(ip) == LET v4 == Canonical(ip)
                 IN [fam |-> 4, bits |-> 2 * (v4.bits \div 2), prefix |-> W4 - 1]
----------------------------------------------------------------------------
(* What a rule means: the addresses whose first `prefix` bits are those of  *)
(* its base.  An address is of the family it really has.                    *)
Bit(n, i) == (n \div Power2[i]) % 2
Covers(rule, ip) ==
  /\ ip.fam = rule.fam
  /\ \A i \in 1..rule.prefix : LET b == Width(rule.fam) - i
                               IN Bit(ip.bits, b) = Bit(rule.bits, b)
Host(ip) == IF \E v4 \in V4 : ip.fam = 6 /\ ip.bits = MappedTag * Power2[W4] + v4.bits
            THEN [fam |-> 4, bits |-> ip.bits - MappedTag * Power2[W4]] ELSE ip
Meant(rules, ip) ==
  rules = <<>> \/ Loopback(Host(ip)) \/ \E i \in DOMAIN rules : Covers(rules[i], Host(ip))
====
