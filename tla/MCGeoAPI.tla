------------------------------ MODULE MCGeoAPI -------------------------------
(***************************************************************************)
(* Instances of GeoAPI for TLC: addresses of eight bits, as in MCFTrie.    *)
(***************************************************************************)
EXTENDS GeoAPI

CONSTANTS k1, k2, k3

N(bits, len) == [val |-> [i \in 1..8 |-> (bits \div 2^(8-i)) % 2], len |-> len]
A(bits) == N(bits, 8).val

Zero == N(0, 0)
MaskZero == N(160, 0)
West == N(64, 3)
East == N(112, 6)
Host == N(118, 8)
North == N(176, 4)

Line(net, id, key) == [net |-> net, id |-> id, key |-> key]
Header == Line(NoNet, 0, NoKey)
NoNames == <<>>

(* An int has five bits: 31 is -1. *)
MinusOne == 31
Ids == 0..30

(* A GeoLite2 ASN file: a header, and a network of its own per number.  It   *)
(* takes back a network that other files have.                               *)
AsnFile == [kind |-> "ASN", names |-> NoNames,
            lines |-> <<Header, Line(West, 21, k1), Line(Host, 22, k2),
                        Line(East, MinusOne, k2)>>]

(* A country file with the default network; the names file lacks id 24. *)
CountryFile == [kind |-> "Country", names |-> <<[id |-> 23, key |-> k3], [id |-> 25, key |-> k1]>>,
                lines |-> <<Line(East, 23, NoKey), Line(North, 24, NoKey),
                            Line(Zero, 25, NoKey)>>]

(* A city file: two networks of one id. *)
CityFile == [kind |-> "City", names |-> <<[id |-> 26, key |-> k3]>>,
             lines |-> <<Header, Line(East, 26, NoKey), Line(North, 26, NoKey)>>]

(* A quagga dump: a line with *, a good line and one without a mask. *)
RouteFile == [kind |-> "routeviews", names |-> NoNames,
              lines |-> <<Line(NoNet, 0, k1), Line(West, 0, k2), Line(BadMask, 0, k3)>>]

(* A bgp log: what is not an announcement takes up a line number. *)
LogFile == [kind |-> "piranha", names |-> NoNames,
            lines |-> <<Header, Line(West, 0, k1)>>]

(* A database whose row ids need more bits than an int, with a NULL column. *)
SqlFile == [kind |-> "sqlite3", names |-> NoNames,
            lines |-> <<Line(Host, 32 + 22, k2), Line(Zero, 64 + 1, k3), Line(BadMask, 3, NoKey)>>]

AllNets == {Zero, MaskZero, West, East, Host, North}
WestNet == {West}
NorthZero == {North, Zero, MaskZero}

AllFiles == {AsnFile, CountryFile, CityFile, RouteFile, LogFile, SqlFile}
AsnFiles == {AsnFile}

SomeAddrs == {A(b) : b \in {64, 115, 118, 119, 176, 255}}
FewAddrs == {A(b) : b \in {64, 115, 118, 176, 255}}
=============================================================================
