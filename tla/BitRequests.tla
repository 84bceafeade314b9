---------------------------- MODULE BitRequests ----------------------------
(***************************************************************************)
(* The commands and files of the instances of BitStore and BitStoreCrash.  *)
(***************************************************************************)
EXTENDS Bytes

CONSTANTS
  x, y, z,   \* keys
  Offsets,   \* byte offsets of the bits set and read
  Values     \* values SETBIT writes

Setbits(K, bits) ==
  [op : {"SETBIT"}, key : K, byte : Offsets, bit : bits, value : Values]
Getbits(K, bits) == [op : {"GETBIT"}, key : K, byte : Offsets, bit : bits]
Counting(K, ranges) ==
  {[op |-> "BITCOUNT", key |-> k, start |-> r[1], end |-> r[2]] : k \in K, r \in ranges}
Bitops(options, hooks, dests, srcs) ==
  [op : {"BITOP"}, option : options, hook : hooks, dest : dests, srcs : srcs]

\* Inside the file, beyond its end, before its start; negative and reversed.
Ranges ==
  {<<0, NULL>>, <<1, 3>>, <<1, 0>>, <<-1, NULL>>, <<-3, -2>>, <<-1, -4>>, <<0, -4>>}

\* Every command, option and hook, over two keys and a third one for results.
OneOfEach ==
  Setbits({z}, {0}) \cup Getbits({z}, {0}) \cup Counting({x}, Ranges)
    \cup Bitops({"OR"}, {"NONE"}, {z}, {<<x, y>>})
    \cup Bitops({"AND"}, {"COUNTOP"}, {NULL}, {<<y, x>>})
    \cup Bitops({"NOT"}, {"GETOP"}, {NULL}, {<<x>>})
    \cup Bitops({"XOR"}, {"NONE"}, {x}, {<<y, x>>})

\* One full piece, and a full one with a short one behind it.
Files == {<<{}, Bit>>, <<{0}, {}, Bit>>}

\* Setters beside commands that count, with one key.
SettersAndCounters ==
  Setbits({x}, Bit) \cup Counting({x}, {<<0, NULL>>, <<0, -1>>})
    \cup Bitops({"OR"}, {"COUNTOP"}, {NULL}, {<<x>>})

OneFile == {<<{0}>>}

\* Setters of one key.
Setters == Setbits({x}, Bit)

\* One command makes the destination, another one stores into it.
Destination == Setbits({z}, Bit) \cup Bitops({"OR"}, {"NONE"}, {z}, {<<x>>})
=============================================================================
