---- MODULE MCIntake ----
(* Configurations and requests around a base of each: one thing is varied at a  *)
(* time, or two where they meet.                                                *)
EXTENDS Intake, Decoder

Big == 9  \* stands for u64::MAX, the size of a body that names none

Vary(base, fields) ==
  UNION {{[base EXCEPT ![f] = v] : v \in fields[f]} : f \in DOMAIN fields}

----------------------------------------------------------------------------
(* Names: a letter, a dot within, and thirteen characters.                      *)
Alice == <<6, 17, 14, 8, 10>>
DotTm == <<9, 0, 25>>
Long == [i \in 1 .. 13 |-> IF i = 13 THEN 15 ELSE 31 - i]
Unnamed == <<>>
Table == <<25>>

Url(origin, path) == [origin |-> origin, path |-> path]
MCNode(name, url, weight, pinnable) ==
  [name |-> name, url |-> url, weight |-> weight, pinnable |-> pinnable]

A == MCNode("a", Url("o1", "/"), Absent, TRUE)
B == MCNode("b", Url("o2", "/"), 2, TRUE)
NodeLists ==
  LET Others == Vary(B, [name |-> {"a", "a b"}, url |-> {Url("o1", "/"), Url("o1", "/x"), Absent},
                         weight |-> {0, 1, Absent}, pinnable |-> {FALSE}])
                \cup {MCNode("a", Url("o2", "/"), 1, FALSE), MCNode("a b", Url("o2", "/"), 1, FALSE)}
  IN  {<<>>, <<A>>, <<B, A>>} \cup {<<A, n>> : n \in Others} \cup {<<n, A>> : n \in Others}

Limiter(name, on, bucket, select) ==
  [name |-> name, on |-> on, bucket |-> bucket, select |-> select, window |-> 1]

Limiters ==
  LET one == Limiter("base", "attempt", "contract", Absent)
      two == Limiter("more", "failure", "authorizer", {<<Long>>})
  IN  {<<>>,
       <<Limiter("base", "attempt", "table", {<<Alice, Table>>}), Limiter("more", "failure", "table", Absent)>>,
       <<Limiter("base", "failure", "contract", {<<Alice>>}),
         Limiter("more", "attempt", "authorizer", Absent), Limiter("ip", "attempt", "ip", Absent)>>,
       <<one, two, Limiter("third", "attempt", "authorizer", {})>>}
      \cup {<<one, r>> : r \in Vary(two, [name |-> {"base", "pinned", "bad name"}, window |-> {0}])}
      \cup {<<[two EXCEPT !.name = "bad name"], one>>, <<one, two, two>>}

BaseConfig ==
  [prometheus |-> "free", address |-> "here", maxBody |-> 5, ipHeader |-> FALSE,
   blockIps |-> {}, block |-> {}, allow |-> {},
   limiters |-> <<Limiter("base", "failure", "ip", Absent)>>, pinWindow |-> 60,
   push |-> <<A>>, get |-> <<B>>, healthcheck |-> Absent]

Varied ==
  [prometheus |-> {"off", "taken", Absent}, address |-> {Absent}, maxBody |-> {Big},
   ipHeader |-> {TRUE}, blockIps |-> {{"peer"}, {"client"}},
   block |-> {{Alice}, {DotTm, Long}, {Unnamed}}, allow |-> {{Alice}, {Alice, DotTm, Long}},
   limiters |-> Limiters, pinWindow |-> {0}, push |-> NodeLists, get |-> NodeLists,
   healthcheck |-> {0, 15}]

MCConfigs ==
  LET Ones == Vary(BaseConfig, Varied)
  IN  {BaseConfig} \cup Ones
      \cup {[c EXCEPT !.healthcheck = 15, !.push = <<A, B>>, !.blockIps = {"peer"},
                      !.ipHeader = TRUE] : c \in Vary(BaseConfig, [limiters |-> Limiters])}
      \cup {[BaseConfig EXCEPT !.prometheus = p, !.address = Absent] : p \in {"taken", "off", Absent}}
      \cup {[BaseConfig EXCEPT !.block = {Alice}, !.allow = {DotTm}, !.pinWindow = w] : w \in {0, 1}}
      \cup {[BaseConfig EXCEPT !.push = l, !.get = m] :
              l \in {<<A, B>>, <<A, A>>, <<>>}, m \in {<<A, B>>, <<>>, <<B, B>>}}

----------------------------------------------------------------------------
Auth(actor) == [actor |-> actor, permission |-> <<6>>]
Act(account, actors, data) ==
  [account |-> account, name |-> <<7, 8>>,
   authorization |-> [i \in DOMAIN actors |-> Auth(actors[i])], data |-> data]

BaseTrx ==
  [expiration |-> {0, 8, 31}, ref_block_num |-> {1, 15}, ref_block_prefix |-> {9},
   max_net_usage_words |-> {}, max_cpu_usage_ms |-> {3}, delay_sec |-> {},
   ctx_free_actions |-> <<>>, actions |-> <<Act(Alice, <<Alice>>, <<>>)>>]

(* Lists of none, one, two and more than 127 elements; numbers of one to five   *)
(* bytes; context free actions, which are not weighed.                          *)
Trxs ==
  {BaseTrx} \cup
  Vary(BaseTrx,
       [max_net_usage_words |-> {{6}, {7}, {0, 31}}, delay_sec |-> {{13, 14}},
        ctx_free_actions |-> {<<Act(Long, <<>>, <<>>)>>},
        actions |-> {<<>>, <<Act(Unnamed, <<DotTm, Long>>, <<{7}>>), Act(DotTm, <<>>, <<>>)>>,
                     <<Act(Alice, <<Long>>, [i \in 1 .. 130 |-> {i % 8}]), Act(Long, <<DotTm>>, <<>>)>>}])

(* The transaction of the test parses_one in src/de.rs, as it is written there. *)
Given ==
  <<71, 58, 192, 101, 235, 22, 192, 4, 128, 219, 0, 0, 0, 0, 1, 128, 179, 194, 216, 32, 39, 105,
    54, 0, 0, 200, 10, 99, 51, 175, 62, 1, 0, 0, 144, 134, 3, 132, 159, 79, 0, 0, 0, 0, 168, 237,
    50, 50, 16, 0, 0, 144, 134, 3, 132, 159, 79, 223, 128, 145, 24, 0, 1, 0, 0, 0, 0>>

GivenTrx ==
  [expiration |-> {0, 1, 2, 6, 9, 11, 12, 13, 22, 23, 24, 26, 29, 30},
   ref_block_num |-> {0, 1, 3, 5, 6, 7, 9, 10, 12},
   ref_block_prefix |-> {6, 7, 10, 23, 24, 25, 27, 28, 30, 31},
   max_net_usage_words |-> {}, max_cpu_usage_ms |-> {}, delay_sec |-> {}, ctx_free_actions |-> <<>>,
   actions |->
     <<[account |-> <<6, 25, 20, 18, 14, 8, 6, 24, 24, 10, 25, 24>>,
        name |-> <<7, 26, 23, 19, 6, 24, 24, 10, 25>>,
        authorization |-> <<[actor |-> <<9, 30, 15, 24, 8, 0, 28, 6, 18>>,
                             permission |-> <<6, 8, 25, 14, 27, 10>>]>>,
        data |-> [i \in 1 .. 16 |-> BitsOf(<<0, 0, 144, 134, 3, 132, 159, 79, 223, 128, 145, 24,
                                             0, 1, 0, 0>>[i])]]>>]

Plainly == [actions |-> <<[account |-> Alice, authorization |-> <<[actor |-> Absent]>>],
                          [account |-> Absent, authorization |-> <<[actor |-> Long]>>]>>]

Object(transaction, packed, unpacked, code, table) ==
  [kind |-> "object", transaction |-> transaction, packed_trx |-> packed,
   unpacked_trx |-> unpacked, code |-> code, table |-> table]

No == Object(Absent, Absent, Absent, Absent, Absent)

(* Bytes that end early, and one number with six bytes of continuation.         *)
Odd == {<<1, 2, 3>>, <<0, 0, 0, 0, 0, 0, 0, 0, 0, 0>> \o [i \in 1 .. 7 |-> 128 + i],
        <<0, 0, 0, 0, 0, 0, 0, 0, 0, 0, 129, 128, 128, 128, 128, 128, 1, 0, 0, 0, 0>>,
        <<0, 0, 0, 0, 0, 0, 0, 0, 0, 0, 0, 0, 0, 0, 255, 255, 255, 255, 15>>}

BaseRequest ==
  [method |-> "POST", path |-> "send_transaction", peer |-> "peer", header |-> Absent,
   size |-> 1, body |-> No, trx |-> Absent, packed |-> Absent]

(* In the two members a body can carry it in, with other things beside it; then *)
(* elsewhere: beside a member "transaction" that holds nothing or other bytes,  *)
(* in a member of another form, and within an array.                            *)
WithTrx ==
  UNION {
    LET bytes == Encode(Transaction, t) \o <<0>>
        bodies == {Object(Absent, bytes, Absent, Absent, Absent),
                   Object([packed_trx |-> bytes], Absent, Plainly, Absent, Absent),
                   Object([packed_trx |-> bytes], <<1>>, Absent, Alice, Table),
                   Object([packed_trx |-> Absent], bytes, Absent, Absent, Absent),
                   Object([packed_trx |-> <<1, 2, 3>>], bytes, Absent, Absent, Absent),
                   Object(Absent, <<120, 156, 99>>, Absent, Absent, Absent),
                   [kind |-> "array"]}
    IN  {[BaseRequest EXCEPT !.body = body, !.trx = t, !.packed = bytes] : body \in bodies} :
    t \in Trxs}
  \cup {[BaseRequest EXCEPT !.body = Object(Absent, Given, Absent, Absent, Absent),
                            !.trx = GivenTrx, !.packed = Given]}

Bodies ==
  {[kind |-> k] : k \in {"unreadable", "text", "empty", "array"}} \cup
  {Object(Absent, b, Absent, Absent, Absent) : b \in Odd} \cup
  {Object([packed_trx |-> Absent], <<1>>, u, Absent, Absent) : u \in {Absent, Plainly}} \cup
  {Object(Absent, Absent, Absent, c, t) : c \in {Absent, Alice, Long}, t \in {Absent, Table}}

Paths == {"send_transaction", "get_info", "get_table_rows", "elsewhere"}
Headers == {Absent, <<"client">>, <<Absent, "client">>, <<"client", "peer">>}

MCRequests ==
  WithTrx
  \cup {[BaseRequest EXCEPT !.path = p, !.method = m, !.header = h] :
          p \in Paths, m \in {"GET", "OPTIONS", "POST"}, h \in Headers}
  \cup {[BaseRequest EXCEPT !.path = p, !.body = b] : p \in Paths, b \in Bodies}
  \cup {[BaseRequest EXCEPT !.size = n, !.method = m] : n \in {5, 6, Big}, m \in {"GET", "POST"}}
====
