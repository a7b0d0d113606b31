----------------------------- MODULE MCHotPlan ------------------------------
(* The desired states of HotPlan, for TLC.                                 *)
EXTENDS HotPlan, SequencesExt

CONSTANT none

User(id, cred, level) ==
    [id |-> id, account |-> "", enabled |-> TRUE, expires |-> 0, quota |-> 0,
     used |-> 0, ipLimit |-> 0, deviceLimit |-> 0,
     level |-> level, cred |-> cred, route |-> ""]

Off(u)     == [u EXCEPT !.enabled = FALSE]
Routed(u)  == [u EXCEPT !.route = "block"]

Inbound(id, tag, protocol, mode, settings, users) ==
    [id |-> id, tag |-> tag, protocol |-> protocol, mode |-> mode,
     settings |-> settings, users |-> users]

\* No u, u off, u under one of two credentials or levels, or with a route;
\* with or without v, before or behind u.
Us == {<<>>, <<Off(User("u", "c", 0))>>, <<User("u", "c", 0)>>,
       <<User("u", "d", 0)>>, <<User("u", "c", 1)>>, <<Routed(User("u", "c", 0))>>}
V  == <<User("v", "c", 0)>>
UserLists == Us \union {u \o V : u \in Us \ {<<Routed(User("u", "c", 0))>>}} \union {V \o <<User("u", "c", 0)>>}

Plain(tag)   == Inbound("i", tag, "vless", "", "x", V)
Variants     == {Plain("s"), Plain("t"), [Plain("s") EXCEPT !.settings = "empty"],
                 [Plain("s") EXCEPT !.mode = "off"], [Plain("s") EXCEPT !.protocol = "http"]}
Other(tag, cred) == Inbound("j", tag, "vless", "", "x", <<User("v", cred, 0)>>)

\* One inbound under every list of users; one that varies, alone, with
\* another under the other tag, before or behind it; other outbounds.
Single == {Inbound("i", "s", p, "", "x", us) : p \in {"vless", "wireguard"}, us \in UserLists}
          \union Variants
Pairs  == {<<i, Other(IF i.tag = "s" THEN "t" ELSE "s", c)>> : i \in Variants, c \in {"c", "d"}}
States == {[inbounds |-> ins, global |-> "none"] :
             ins \in {<<i>> : i \in Single} \union Pairs \union {Reverse(p) : p \in Pairs}}
          \union {[inbounds |-> <<Plain("s")>>, global |-> "dns"]}

\* Devices of two accounts, with all the limits there are.
Device(id, a, cap) == [User(id, "c", 0) EXCEPT !.account = a, !.deviceLimit = cap]
Kinds == {[expires |-> 0, quota |-> 0, ipLimit |-> 0], [expires |-> 2, quota |-> 0, ipLimit |-> 0],
          [expires |-> 0, quota |-> 2, ipLimit |-> 0], [expires |-> 0, quota |-> 0, ipLimit |-> 1]}
Limited(u, k) == [u EXCEPT !.expires = k.expires, !.quota = k.quota, !.ipLimit = k.ipLimit]
Accounts ==
    {[inbounds |-> <<Inbound("i", "s", "vless", m, "x",
                     <<Device("u", "a", c), Limited(Device("v", "a", d), k), Device("w", b, 2)>>)>>,
      global |-> "none"] :
        m \in {"", "off"}, c \in {0, 1}, d \in 1..2, b \in {"a", "b"}, k \in Kinds}

AllStates ==
    States \union {s \in Accounts :
        LET in == s.inbounds[1]
        IN /\ in.mode = "off" => in.users[2].ipLimit = 1
           /\ in.users[3].account = "b" => in.mode = "" /\ in.users[2].quota = 2}

\* Before and after v's limits bite.
AllViews == {[now |-> 1, ips |-> [x \in {"u", "v", "w"} |-> 1], pending |-> [x \in {"u", "v", "w"} |-> 1]],
             [now |-> 2, ips |-> [x \in {"u", "v", "w"} |-> 2], pending |-> [x \in {"u", "v", "w"} |-> 2]]}
=============================================================================
