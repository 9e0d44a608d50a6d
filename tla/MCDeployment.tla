---------------------------- MODULE MCDeployment ----------------------------
(***************************************************************************)
(* For the orchestrator: one variable of each kind, every value of which   *)
(* goes with every file of up to three lines, among them pairs of one key  *)
(* twice, empty values and a line the scanner cannot take; lists with      *)
(* blank parts in every position.  For the older service: the same lists,  *)
(* and without a list, every choice of buckets and of numbered shards.     *)
(***************************************************************************)
EXTENDS Deployment

Unset  == [set |-> FALSE, value |-> <<>>]
Set(v) == [set |-> TRUE, value |-> v]

MCRequired == {"S3_BUCKET", "SHARD_URLS"}
MCOptional == {"HTTP_PORT"}
MCDefault  == [k \in MCOptional |-> <<"8088">>]

Texts == {Unset, Set(<<>>), Set(<<"a">>)}
Lists == {Set(v) : v \in {<<Blank, "a">>, <<"b", Blank, "a">>, <<Blank, Blank>>}}

Given(bucket, port, urls) ==
  [k \in MCRequired \cup MCOptional |->
     CASE k = "S3_BUCKET" -> bucket [] k = "HTTP_PORT" -> port [] OTHER -> urls]

MCGivens ==
  {Given(bucket, port, urls) : bucket \in Texts, port \in Texts, urls \in Texts \cup Lists}

Other      == [kind |-> "other"]
TooLong    == [kind |-> "tooLong"]
Pair(k, v) == [kind |-> "pair", key |-> k, value |-> v]

MCLines == {Other, TooLong}
  \cup {Pair(k, v) : k \in {"SHARD_URLS", "HTTP_PORT"}, v \in {<<>>, <<"c">>}}
  \cup {Pair("SHARD_URLS", <<"d", Blank>>)}

MCFiles == BoundedSeq(MCLines, 3)

(* The environments of the older service: nothing set but one shard, ...   *)
Plain == [buckets |-> [k \in 0 .. MaxIndex |-> None], shardURLs |-> <<>>,
          shards  |-> [k \in 0 .. MaxIndex |-> None], numShards |-> Numeric(1)]

(* ... the buckets, or the shards and their number.                        *)
MCEnvs ==
  {[Plain EXCEPT !.buckets = b] : b \in [0 .. MaxIndex -> {None, Invalid, "x", "y"}]}
  \cup {[Plain EXCEPT !.shards = s, !.numShards = n] :
          s \in [0 .. MaxIndex -> {None, "u", "v"}], n \in {NotSet, Text, Numeric(0), Numeric(2)}}

MCAllEnvs ==
  MCEnvs \cup {[Plain EXCEPT !.shardURLs = g["SHARD_URLS"].value] : g \in MCGivens}

Started(g, f, e) == [given |-> g, file |-> f, env |-> e]

MCDeployments ==
  {Started(g, f, [Plain EXCEPT !.shardURLs = g["SHARD_URLS"].value]) :
     g \in MCGivens, f \in MCFiles}
  \cup {Started(Given(Unset, Unset, Unset), <<>>, e) : e \in MCEnvs}
=============================================================================
