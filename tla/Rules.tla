-------------------------------- MODULE Rules --------------------------------
(***************************************************************************)
(* Which rule of a section applies to a request: is_in_SubnetMask of       *)
(* util/util.lua, and get_ip_config and get_user_config of the two         *)
(* limiters, which differ only in the fields they copy.                    *)
(*                                                                         *)
(* An address is the sequence of its octets, a rule key either a user      *)
(* [user], an address or a network [ip, mask]; mask = Nil where the key    *)
(* has none.                                                               *)
(***************************************************************************)
EXTENDS Naturals, Sequences, SequencesExt

CONSTANTS OctetBits,  \* binary digits of an octet (8 in the code)
          Octets,     \* octets of an address (4 in the code)
          Nil         \* no such value

ASSUME RulesAssumption == OctetBits \in Nat \ {0} /\ Octets \in Nat \ {0}

Bits == OctetBits * Octets

\* The powers of two.
Pow2[n \in Nat] == IF n = 0 THEN 1 ELSE 2 * Pow2[n - 1]

\* The addresses of clients; every other text of a key without a mask is
\* some value outside Address.
Address == [1..Octets -> 0..(Pow2[OctetBits] - 1)]

\* dec2bin: the number is halved again and again; the remainders are its
\* binary digits, OctetBits of them, the most significant one first.
dec2bin(num) ==
    LET rest[k \in 0..OctetBits] == IF k = 0 THEN num ELSE rest[k - 1] \div 2
    IN  [i \in 1..OctetBits |-> rest[OctetBits - i] % 2]

ipToBinary(ip) == FlattenSeq([i \in 1..Len(ip) |-> dec2bin(ip[i])])

\* Seeded fault: the comparison leaves out the last digit of the prefix.
isIPInRangeShort(ip, subnet, mask) ==
    LET n == IF mask > 0 THEN mask - 1 ELSE 0
    IN  SubSeq(ipToBinary(ip), 1, n) = SubSeq(ipToBinary(subnet), 1, n)

\* The first mask digits agree.
isIPInRange(ip, subnet, mask) ==
    SubSeq(ipToBinary(ip), 1, mask) = SubSeq(ipToBinary(subnet), 1, mask)

\* A key that is no network is compared as it is.
is_in_SubnetMask(ip, key) ==
    IF key.mask = Nil THEN ip = key.ip ELSE isIPInRange(ip, key.ip, key.mask)

\* A rule of default_args, under the name of whom it is applied to.
Personal(v, key) == [key |-> key, limit_location |-> v.limit_location,
                     limit |-> v.limit, dry_run |-> v.dry_run]

\* The rule of default_args for a location, if there is one.
Common(conf, key, location) ==
    LET j == SelectInSeq(conf.default_args, LAMBDA v : v.limit_location = location)
    IN  IF j = 0 THEN Nil ELSE Personal(conf.default_args[j], key)

get_ip_config(conf, ip, location) ==
    LET i == SelectInSeq(conf.limit_args,
                LAMBDA v : is_in_SubnetMask(ip, v.key) /\ v.limit_location = location)
    IN  IF i # 0 THEN conf.limit_args[i] ELSE Common(conf, [ip |-> ip, mask |-> Nil], location)

\* user is Nil where the request has none ("none" in the code).
get_user_config(conf, user, location) ==
    LET RuleOf(name) == SelectInSeq(conf.limit_args,
                LAMBDA v : v.key = [user |-> name] /\ v.limit_location = location)
    IN  IF RuleOf(user) # 0 THEN conf.limit_args[RuleOf(user)]
        ELSE IF user # Nil /\ conf.limit_common_on THEN Common(conf, [user |-> user], location)
        ELSE IF RuleOf(conf.limit_default_user) # 0
             THEN conf.limit_args[RuleOf(conf.limit_default_user)] ELSE Nil

\* The rule of a section for a client [ip, user, location].
RuleFor(conf, c) == IF conf.limit_type = "user"
                    THEN get_user_config(conf, c.user, c.location)
                    ELSE get_ip_config(conf, c.ip, c.location)

\* A key of a section by addresses: with a mask it is what
\* isSubnetMaskString takes for a network, without one any other text.
IsKey(key) == key.mask = Nil \/ (key.ip \in Address /\ key.mask \in 0..Bits)

\* A section of a rule file: its rules are lists.
IsSection(conf) ==
    /\ DOMAIN conf.limit_args = 1..Len(conf.limit_args) /\ Len(conf.limit_args) \in Nat
    /\ DOMAIN conf.default_args = 1..Len(conf.default_args) /\ Len(conf.default_args) \in Nat
    /\ conf.limit_type # "user" => \A i \in DOMAIN conf.limit_args : IsKey(conf.limit_args[i].key)

-----------------------------------------------------------------------------
(* What the operator of the gateway means by a rule file, without strings  *)
(* and loops: a network is an interval of addresses.                        *)

\* The number of an address.
Number(ip) ==
    LET upTo[i \in 0..Octets] == IF i = 0 THEN 0 ELSE upTo[i - 1] * Pow2[OctetBits] + ip[i]
    IN  upTo[Octets]

\* Addresses lie in a network when they agree up to the network's size; a
\* key without a mask is a network of one address.
InNetwork(ip, key) ==
    LET size == Pow2[IF key.mask = Nil THEN 0 ELSE Bits - key.mask]
    IN  key.ip \in Address /\ Number(ip) \div size = Number(key.ip) \div size

\* Whether rule v of limit_args is about client c under the name given.
AppliesTo(conf, v, c, name) ==
    /\ v.limit_location = c.location
    /\ IF conf.limit_type = "user" THEN v.key = [user |-> name] ELSE InNetwork(c.ip, v.key)

\* r is the rule the file gives client c: the first one of limit_args that
\* applies to it; failing that the common one of its location under its own
\* name; and for users without a common rule the one of the default user.
IsRuleFor(conf, c, r) ==
    LET own     == {i \in DOMAIN conf.limit_args : AppliesTo(conf, conf.limit_args[i], c, c.user)}
        shared  == {i \in DOMAIN conf.limit_args :
                      AppliesTo(conf, conf.limit_args[i], c, conf.limit_default_user)}
        common  == {i \in DOMAIN conf.default_args :
                      conf.default_args[i].limit_location = c.location}
        First(S, i) == i \in S /\ \A j \in S : i <= j
        named   == conf.limit_type # "user" \/ (c.user # Nil /\ conf.limit_common_on)
        self    == IF conf.limit_type = "user" THEN [user |-> c.user] ELSE [ip |-> c.ip, mask |-> Nil]
    IN  IF own # {} THEN \E i \in own : First(own, i) /\ r = conf.limit_args[i]
        ELSE IF named
        THEN IF common = {} THEN r = Nil
             ELSE \E i \in common : First(common, i) /\ r = Personal(conf.default_args[i], self)
        ELSE IF shared = {} THEN r = Nil
             ELSE \E i \in shared : First(shared, i) /\ r = conf.limit_args[i]
=============================================================================
