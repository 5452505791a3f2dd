------------------------------- MODULE MCInputs -------------------------------
(* Inputs for TLC.                                                                *)
EXTENDS Inputs

(* Settings: a sound file with any two of its settings replaced.  Sizes have three *)
(* units and integers eight bits, so that 8G wraps to zero and 5G to less.        *)
SoundSettings ==
  [listen |-> [form |-> "port", host |-> "", port |-> 8080],
   readTimeout |-> 5 * Second, writeTimeout |-> 5 * Second, shutdownTimeout |-> 0,
   type |-> "local",
   maxSize |-> [form |-> "size", value |-> 6, unit |-> "K"],
   numCounters |-> 1000, cleanupInterval |-> 0,
   redisAddr |-> "host:port", redisDB |-> 0, poolSize |-> 0, dialTimeout |-> 0,
   redisReadTimeout |-> 0, redisWriteTimeout |-> 0,
   level |-> "info", format |-> "json",
   logToFile |-> FALSE, logPath |-> "koala.log",
   logMaxSize |-> 0, logMaxBackups |-> 0, logMaxAge |-> 0,
   metrics |-> TRUE, metricsPath |-> "/metrics",
   rulesFile |-> "loads", reloadInterval |-> 0]

Alternatives ==
  [listen |-> {[form |-> f, host |-> h, port |-> p] :
               f \in {"", "port", "host:port", "other"}, h \in {"ip", "other"},
               p \in {-1, 0, 80, 65536}},
   readTimeout |-> {0, -1, 6 * Minute}, writeTimeout |-> {0, -1, 6 * Minute},
   shutdownTimeout |-> {-1},
   type |-> {"", "redis", "disk"},
   maxSize |-> {[form |-> f, value |-> v, unit |-> u] :
                f \in {"size", "malformed"}, v \in {0, 5, 8, 200}, u \in {"", "G"}}
               \cup {[form |-> "", value |-> 0, unit |-> ""]},
   numCounters |-> {0, -1}, cleanupInterval |-> {-1},
   redisAddr |-> {"", "port"}, redisDB |-> {-1, 16}, poolSize |-> {-1}, dialTimeout |-> {-1},
   redisReadTimeout |-> {-1}, redisWriteTimeout |-> {-1},
   level |-> {"", "trace"}, format |-> {"", "xml"},
   logToFile |-> {TRUE}, logPath |-> {""},
   logMaxSize |-> {-1}, logMaxBackups |-> {-1}, logMaxAge |-> {-1},
   metrics |-> {FALSE}, metricsPath |-> {"", "metrics"},
   rulesFile |-> {"", "missing", "refused", "lost dictionary"},
   reloadInterval |-> {-1, 500, 60 * Second}]

Replacements == UNION {{<<f, x>> : x \in Alternatives[f]} : f \in DOMAIN Alternatives}

MCSettings ==
  {[s EXCEPT ![f] = x, ![g] = y] :
     s \in {SoundSettings, [SoundSettings EXCEPT !.type = "redis"]},
     <<f, x>> \in Replacements, <<g, y>> \in Replacements}

MCMultiplier == [u \in {"", "K", "G"} |-> CASE u = "" -> 1 [] u = "K" -> 8 [] u = "G" -> 32]

(* Rules files: one access rule and one rate rule, each sound or wrong in one way  *)
(* or several, in every phase in turn.                                            *)
AccessRules == [name : {"", "vip"}, match : BOOLEAN, dicts : {{}, {"cities"}, {"lost"}},
                result : {"", "ok", "nowhere"}]
RateRules == [name : {"", "login"}, type : Types \cup {"leaky"}, match : BOOLEAN,
              count : {-1, 0, 2}, time : {0, 60}, base : {-1, 1}, result : {"ok", "nowhere"}]
Sound == [name |-> "login", type |-> "freq", match |-> TRUE,
          count |-> 2, time |-> 60, base |-> 0, result |-> "ok"]

Empty == [version |-> "1.0.0", results |-> {"ok"}, flawed |-> {}, dicts |-> {"cities"},
          whitelist |-> <<>>, blacklist |-> <<>>,
          business |-> <<>>, post |-> <<>>, advanced |-> <<>>, default |-> <<>>]

MCConfigs ==
  {[Empty EXCEPT !.whitelist = <<r>>, !.business = <<Sound>>] : r \in AccessRules}
    \cup {[Empty EXCEPT !.blacklist = <<r>>] : r \in AccessRules}
    \cup {[Empty EXCEPT !.business = <<Sound, r>>] : r \in RateRules}
    \cup {[Empty EXCEPT !.post = <<r>>, !.default = <<Sound>>] : r \in {q \in RateRules : q.match}}
    \cup {[Empty EXCEPT !.version = v] : v \in {"", "1"}}
    \cup {[Empty EXCEPT !.flawed = {"ok"}], [Empty EXCEPT !.results = {}]}

MCNoText == <<>>
MCSemVers == {"1.0.0"}

(* Patterns: 9 stands for a number that ParseInt refuses as too large.  Numbers do *)
(* not touch each other in a text.                                                *)
UpTo(n, S) == UNION {[1..k -> S] : k \in 0..n}
Written(S) == {s \in S : \A i \in 1..(Len(s) - 1) : ~(s[i].c = "number" /\ s[i + 1].c = "number")}
Characters(C, N) == {Mark(c) : c \in C} \cup {Num(k) : k \in N}

SignedTexts == Written(UpTo(5, Characters({"-", "+"}, {1, 2})))
Operations ==
  {<<Mark(c)>> \o s : c \in PrefixMarks,
                      s \in Written(UpTo(3, Characters({"-", "+", ",", "a"}, {1, 9})))}
Lists == Written(UpTo(5, Characters({",", " ", "-"}, {1})))
Addresses(S) == {Address(x) : x \in [1..4 -> {<<c>> : c \in S}]}

MCPatterns ==
  SignedTexts \cup Operations \cup Lists \cup Addresses(Characters({"*"}, {1, 2}))
    \cup {<<Mark("*")>> \o Dot \o <<Num(1)>>, <<Num(9), Mark("-"), Num(9)>>,
          Address(<< <<Mark("*"), Mark("*")>>, <<>>, <<Num(1)>>, <<Num(1)>> >>)}
MCValues ==
  Written(UpTo(2, Characters({"-", "+", "a"}, {1, 2, 9})))
    \cup {<<Num(1), Mark("-"), Num(2)>>, <<Num(1), Mark(","), Num(1)>>,
          Address([i \in 1..4 |-> <<Num(1)>>]), Address([i \in 1..4 |-> <<Num((i % 2) + 1)>>])}

MCDicts == (<<Mark("a")>> :> {<<Mark("a")>>, <<Num(1)>>}) @@ (<<Num(1)>> :> {})
===============================================================================
