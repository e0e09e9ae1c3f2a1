------------------------------ MODULE MCIpsec -------------------------------
(***************************************************************************)
(* A small instance of Ipsec: two sets of options, and remote nodes that   *)
(* come and go, move, and collide.                                         *)
(***************************************************************************)
EXTENDS Ipsec, MCCluster

MCStrategies ==
    {[Auth |-> "hmac(sha1)", Crypt |-> "rfc3686(ctr(aes))", Encap |-> "espinudp"],
     [Auth |-> "digest_null", Crypt |-> "ecb(cipher_null)", Encap |-> "none"]}

\* A PodCIDR whose numeral is that of Net(1): they differ above the last 14 bits.
Far(i) == [ip |-> <<10, 64, i, 0>>, len |-> 24]

IpsecViews ==
    {Full(c) : c \in {Cluster(Self, Nil, Nil),
                      Cluster(Self, Info(Net(1), Addr(1)), Nil),
                      Cluster(Self, Nil, Info(Net(1), Addr(2))),
                      Cluster(Self, Info(Net(1), Addr(1)), Info(Far(1), Addr(2))),
                      Cluster(Self, Info(Net6, Addr(1)), Nil)}}

=============================================================================
