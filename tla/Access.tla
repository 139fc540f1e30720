------------------------------- MODULE Access -------------------------------
(***************************************************************************)
(* What happens to one request in the access and log phases, and what can  *)
(* change under it: access/access_main.lua, access/ip_deny.lua, the two    *)
(* limiters' choice of a rule (Rules) and util/get_conf.lua, which looks a *)
(* domain's rules up in the shared dictionary "conf" (ShDict) anew for     *)
(* every section; against worker 0, which copies the rule file into the    *)
(* same dictionary, the operator who edits the file and the address lists, *)
(* and the dictionary that evicts entries when it is full.                 *)
(*                                                                         *)
(* A request runs on any worker, so other processes run between any two of *)
(* its calls.  The slots of Req are used again: a request that ended may   *)
(* be followed by another one in the same slot.                            *)
(*                                                                         *)
(* The verdict of the rate limiter is left open (ReqLimit has it), and the *)
(* counter of the connection limiter neither expires nor loses an answer   *)
(* here (ConnLimit has both): a command is executed or fails.              *)
(***************************************************************************)
EXTENDS Integers, FiniteSets, FiniteSetsExt, ShDict, Rules

CONSTANTS Req,       \* slots for requests that run at the same time
          Host,      \* the domain each of them asks for
          Clients,   \* the clients [ip, user, location] that may be behind it;
                     \* location = Nil: nginx does not set limit_location
          File,      \* File[v][d]: the text version v of the rule file has for
                     \* domain d, [len, basic, reqlimit, connlimit], or Nil
          Lists,     \* the <<service, address>> pairs an operator may list
          LockTTL,   \* exptime of the loader's lock (30 s in the code)
          MaxNow,    \* bound: clock
          MaxMoves   \* bound: edits of the address lists while a request asks them

Version == DOMAIN File
Domain  == DOMAIN File[1]
Own     == {"default", "healthcheck", "time", "lock"}   \* keys that are no domain's
Key     == Domain \cup Own

ASSUME AccessAssumption ==
    /\ IsFiniteSet(Req) /\ MaxNow \in Nat /\ MaxMoves \in Nat /\ LockTTL \in Nat \ {0}
    /\ \A r \in Req : Clients[r] # {}

\* There is a file.  No domain, and no Host of a request, has the name of
\* another entry: "share_dict_conf" and "conf:last:modified..." are no host
\* names, and requests for hosts "default" and "healthcheck" are left out.  The
\* master's entries fit into the dictionary.
ASSUME FileAssumption ==
    /\ DOMAIN File = 1..Len(File) /\ Len(File) \in Nat \ {0}
    /\ \A v \in Version : \A d \in Domain : File[v][d] # Nil => File[v][d].len \in Nat
    /\ Domain \cap Own = {} /\ \A r \in Req : Host[r] \notin Own
    /\ Missing \notin Version /\ Capacity > 1

\* Clients have IPv4 addresses, and the sections of the file are such ones
\* as Rules describes.
ASSUME SectionAssumption ==
    /\ \A r \in Req : \A c \in Clients[r] : c.ip \in Address
    /\ \A v \in Version : \A d \in Domain : File[v][d] # Nil =>
         \A app \in {"reqlimit", "connlimit"} : File[v][d][app] # Nil => IsSection(File[v][d][app])

VARIABLES q,       \* the dictionary "conf"
          now,     \* clock
          ver,     \* version of the rule file on disk
          loader,  \* worker 0 in read_conf_file
          black, white,  \* the address lists in Redis
          cnt,     \* the connection limiter's counters in Redis, 0 left out
          pc,      \* where each request is
          client,  \* who sent it
          service, \* the local variable of main()
          rule,    \* the rule whose counter has its 1 (args, then ctx.limit_conn)
          hold,    \* ctx.limit_conn_key, {} before it is set
          basis,   \* history: version of the section the rule came from
          placed,  \* history: the counters that have this request's 1
          seen,    \* history: how the lists stood during ip_rule
          doubt,   \* history: edits of the lists during ip_rule, 2 = several, 3 = an error
          lost,    \* history: its domain was evicted since it started
          since    \* history: the keys there are used since each key's last use

dict    == <<q, since>>
lists   == <<black, white>>
request == <<pc, client, service, rule, hold, basis, placed, seen, doubt>>
vars    == <<dict, now, ver, loader, lists, cnt, request, lost>>

Phase == {"idle", "basic", "black", "white", "req", "conn", "rejecting",
          "serving", "denied", "failed"}

(***************************************************************************)
(* The dictionary.                                                         *)
(***************************************************************************)

\* Bookkeeping of one use of key k that leaves the queue q2.
Uses(k, q2) ==
    since' = [j \in Key |-> IF j = k \/ ~Has(q2, j) THEN {} ELSE (since[j] \cup {k}) \cap Keys(q2)]

\* conf:get(k)
Get(k) == /\ q' = getQueue(q, now, k)
          /\ Uses(k, q')
          /\ UNCHANGED lost

\* conf:set and conf:add.  A live entry that a store of another key drops,
\* or that its own store drops and cannot put back, is lost.
Put(res, k) ==
    /\ q' = res.q
    /\ Uses(k, q')
    /\ lost' = [r \in Req |-> lost[r] \/ (/\ pc[r] # "idle"
                                           /\ lookup(q, now, Host[r]) = "ok"
                                           /\ ~Has(q', Host[r]))]

\* The domain's table as get_conf decodes it, Nil when there is none.
Table(d) == LET v == getValue(q, now, d) IN IF v = Missing THEN Nil ELSE File[v][d]

\* A section of it: Nil as well when there is no domain.
AppOf(t, app) == IF t = Nil THEN Nil ELSE t[app]

(***************************************************************************)
(* A request.                                                              *)
(***************************************************************************)

Goto(r, p) == pc' = [pc EXCEPT ![r] = p]

\* A client as a limiter sees it, which has its own name for a location
\* that is not set.
Located(c, unset) == [ip |-> c.ip, user |-> c.user,
                      location |-> IF c.location = Nil THEN unset ELSE c.location]

\* How the lists b and w stand for an address and a service.
Standing(s, c, b, w) == IF <<s, c.ip>> \in b \ w THEN "banned" ELSE "free"

\* A request arrives; main() returns at once for a domain without rules.
Arrive(r) ==
    /\ pc[r] = "idle"
    /\ \E c \in Clients[r] : client' = [client EXCEPT ![r] = c]
    /\ Get(Host[r])
    /\ Goto(r, IF Table(Host[r]) = Nil THEN "serving" ELSE "basic")
    /\ UNCHANGED <<now, ver, loader, lists, cnt, service, rule, hold, basis, placed, seen, doubt>>

\* get_conf.app("basic") reads the domain again.  A domain that is gone by
\* now is nil.service, and a table without the section is indexed in
\* app_check: the request ends with an error.
Basic(r) ==
    /\ pc[r] = "basic"
    /\ Get(Host[r])
    /\ LET t == Table(Host[r]) IN
       \/ /\ AppOf(t, "basic") = Nil
          /\ Goto(r, "failed")
          /\ UNCHANGED <<service, seen>>
       \/ /\ AppOf(t, "basic") # Nil
          /\ service' = [service EXCEPT ![r] = t.basic.service]
          /\ IF t.basic.ip_deny
             THEN /\ Goto(r, "black")
                  /\ seen' = [seen EXCEPT ![r] = {Standing(t.basic.service, client[r], black, white)}]
             ELSE Goto(r, "req") /\ UNCHANGED seen
    /\ UNCHANGED <<now, ver, loader, lists, cnt, client, rule, hold, basis, placed, doubt>>

\* ip_rule, first query.  An error is not 1: the address is not on the list.
Black(r) ==
    /\ pc[r] = "black"
    /\ \/ /\ Goto(r, IF <<service[r], client[r].ip>> \in black THEN "white" ELSE "req")
          /\ UNCHANGED doubt
       \/ /\ Goto(r, "req")
          /\ doubt' = [doubt EXCEPT ![r] = 3]
    /\ UNCHANGED <<dict, now, ver, loader, lists, cnt, client, service, rule, hold, basis, placed, seen, lost>>

\* Seeded fault: the white list is not asked.
WhiteUnasked(r) ==
    /\ pc[r] = "white"
    /\ Goto(r, "denied")
    /\ UNCHANGED <<dict, now, ver, loader, lists, cnt, client, service, rule, hold, basis, placed, seen, doubt, lost>>

\* ip_rule, second query, of an address found on the black list.  An error
\* is again not 1, and the request is refused with 403.
White(r) ==
    /\ pc[r] = "white"
    /\ \/ /\ Goto(r, IF <<service[r], client[r].ip>> \in white THEN "req" ELSE "denied")
          /\ UNCHANGED doubt
       \/ /\ Goto(r, "denied")
          /\ doubt' = [doubt EXCEPT ![r] = 3]
    /\ UNCHANGED <<dict, now, ver, loader, lists, cnt, client, service, rule, hold, basis, placed, seen, lost>>

\* get_conf.app("reqlimit") and req_limit_logic: no domain, no limit; a
\* table without the section throws; without a rule the request goes on;
\* with one it goes on or is refused with 429, unless the section is a dry
\* run.
ReqLimit(r) ==
    /\ pc[r] = "req"
    /\ Get(Host[r])
    /\ LET t == Table(Host[r]) IN
       \/ t = Nil /\ Goto(r, "conn")
       \/ t # Nil /\ t.reqlimit = Nil /\ Goto(r, "failed")
       \/ /\ AppOf(t, "reqlimit") # Nil
          /\ \/ Goto(r, "conn")
             \/ /\ RuleFor(t.reqlimit, Located(client[r], "default")) # Nil /\ ~t.reqlimit.dry_run
                /\ Goto(r, "denied")
    /\ seen' = [seen EXCEPT ![r] = {}] /\ doubt' = [doubt EXCEPT ![r] = 0]
    /\ UNCHANGED <<now, ver, loader, lists, cnt, client, service, rule, hold, basis, placed>>

Counter(k) == IF k \in DOMAIN cnt THEN cnt[k] ELSE 0

\* INCR or DECR.
Bump(k, d) ==
    cnt' = [j \in {j \in DOMAIN cnt \cup {k} : Counter(j) + (IF j = k THEN d ELSE 0) # 0}
              |-> Counter(j) + (IF j = k THEN d ELSE 0)]

\* The name of the counter: the service the request started with and the
\* key and location of the rule it has just been given.
CounterKey(r, v) == <<service[r], v.key, v.limit_location>>

\* get_conf.app("connlimit") and conn_limit_logic up to the answer of INCR:
\* as above; a request over the limit has to take its 1 back, an admitted
\* one records the key in its context, and without an answer it passes.
ConnLimit(r) ==
    /\ pc[r] = "conn"
    /\ Get(Host[r])
    /\ LET t == Table(Host[r])
           v == IF AppOf(t, "connlimit") = Nil THEN Nil ELSE RuleFor(t.connlimit, Located(client[r], ""))
       IN
       \/ /\ t # Nil /\ t.connlimit = Nil
          /\ Goto(r, "failed")
          /\ UNCHANGED <<cnt, rule, basis, hold, placed>>
       \/ /\ v = Nil /\ (t # Nil => t.connlimit # Nil)
          /\ Goto(r, "serving")
          /\ UNCHANGED <<cnt, rule, basis, hold, placed>>
       \/ /\ v # Nil
          /\ Goto(r, "serving")
          /\ UNCHANGED <<cnt, rule, basis, hold, placed>>
       \/ /\ v # Nil
          /\ rule' = [rule EXCEPT ![r] = v]
          /\ basis' = [basis EXCEPT ![r] = getValue(q, now, Host[r])]
          /\ Bump(CounterKey(r, v), 1)
          /\ placed' = [placed EXCEPT ![r] = {CounterKey(r, v)}]
          /\ IF Counter(CounterKey(r, v)) + 1 > v.limit
             THEN Goto(r, "rejecting") /\ UNCHANGED hold
             ELSE /\ Goto(r, "serving")
                  /\ hold' = [hold EXCEPT ![r] = {CounterKey(r, v)}]
    /\ UNCHANGED <<now, ver, loader, lists, client, service, seen, doubt>>

\* The DECR of a request over the limit, then 429 unless the rule is a dry run.
Reject(r) ==
    /\ pc[r] = "rejecting"
    /\ Bump(CounterKey(r, rule[r]), -1)
    /\ placed' = [placed EXCEPT ![r] = {}]
    /\ Goto(r, IF rule[r].dry_run THEN "serving" ELSE "denied")
    /\ rule' = [rule EXCEPT ![r] = Nil] /\ basis' = [basis EXCEPT ![r] = Nil]
    /\ UNCHANGED <<dict, now, ver, loader, lists, client, service, hold, seen, doubt, lost>>

\* The request is over and its slot is free.
Forget(r) ==
    /\ Goto(r, "idle")
    /\ service' = [service EXCEPT ![r] = Nil]
    /\ rule' = [rule EXCEPT ![r] = Nil]
    /\ basis' = [basis EXCEPT ![r] = Nil]
    /\ hold' = [hold EXCEPT ![r] = {}]
    /\ placed' = [placed EXCEPT ![r] = {}]
    /\ seen' = [seen EXCEPT ![r] = {}]
    /\ doubt' = [doubt EXCEPT ![r] = 0]
    /\ lost' = [lost EXCEPT ![r] = FALSE]
    /\ client' = [client EXCEPT ![r] = CHOOSE c \in Clients[r] : TRUE]

Ended(r) == pc[r] \in {"serving", "denied", "failed"}

\* Seeded fault: the release looks the rule up again instead of using the
\* key in the context.
LogLooksUp(r) ==
    /\ Ended(r)
    /\ LET t == Table(Host[r])
           v == IF AppOf(t, "connlimit") = Nil THEN Nil ELSE RuleFor(t.connlimit, Located(client[r], ""))
       IN  IF hold[r] # {} /\ v # Nil THEN Bump(CounterKey(r, v), -1) ELSE UNCHANGED cnt
    /\ Forget(r)
    /\ UNCHANGED <<dict, now, ver, loader, lists>>

\* The response is sent; the timer of conn_redis.lua gives the place back
\* under the key in the context.
Log(r) ==
    /\ Ended(r)
    /\ \/ hold[r] = {} /\ UNCHANGED cnt
       \/ \E k \in hold[r] : Bump(k, -1)
    /\ Forget(r)
    /\ UNCHANGED <<dict, now, ver, loader, lists>>

(***************************************************************************)
(* Worker 0: read_conf_file, from a timer every 60 seconds.  A get of a    *)
(* key directly followed by a set of it is one step: in between the key    *)
(* stays the most recently used one but for entries that become so in      *)
(* either case.                                                            *)
(***************************************************************************)

LoaderAt(p) == loader.pc = p

\* lock:lock(conf_key) adds the lock to the dictionary; the answer only
\* decides whether it is removed again.
Lock ==
    /\ LoaderAt("sleep")
    /\ LET res == store(q, now, "add", "lock", 0, 1, LockTTL) IN
       /\ Put(res, "lock")
       /\ loader' = [loader EXCEPT !.pc = "stat", !.held = (res.rc = "ok")]
    /\ UNCHANGED <<now, ver, lists, cnt, request>>

\* Seeded fault: any recorded time counts as the file's.
StatOnce ==
    /\ LoaderAt("stat")
    /\ IF Has(q, "time")
       THEN Get("time") /\ loader' = [loader EXCEPT !.pc = "unlock"]
       ELSE /\ Put(store(getQueue(q, now, "time"), now, "set", "time", ver, 1, 0), "time")
            /\ loader' = [loader EXCEPT !.pc = "read"]
    /\ UNCHANGED <<now, ver, lists, cnt, request>>

\* isconfread: the time of the file is compared with the one in the
\* dictionary and recorded when it differs.
Stat ==
    /\ LoaderAt("stat")
    /\ IF getValue(q, now, "time") = ver
       THEN Get("time") /\ loader' = [loader EXCEPT !.pc = "unlock"]
       ELSE /\ Put(store(getQueue(q, now, "time"), now, "set", "time", ver, 1, 0), "time")
            /\ loader' = [loader EXCEPT !.pc = "read"]
    /\ UNCHANGED <<now, ver, lists, cnt, request>>

\* The file is read and decoded.
ReadFile ==
    /\ LoaderAt("read")
    /\ LET domains == {d \in Domain : File[ver][d] # Nil} IN
       loader' = [loader EXCEPT !.pc = IF domains = {} THEN "unlock" ELSE "copy",
                                !.v = ver, !.todo = domains]
    /\ UNCHANGED <<dict, now, ver, lists, cnt, request, lost>>

Copied(d) == [loader EXCEPT !.todo = @ \ {d},
                            !.pc = IF loader.todo = {d} THEN "unlock" ELSE "copy"]

\* Seeded faults: a changed domain is deleted before it is set, and a domain
\* that is there already is not set again.
CopyDeletes(d) ==
    /\ LoaderAt("copy") /\ d \in loader.todo
    /\ IF Table(d) \in {Nil, File[loader.v][d]}
       THEN /\ Put(store(q, now, "set", d, loader.v, File[loader.v][d].len, 0), d)
            /\ loader' = Copied(d)
       ELSE /\ q' = store(q, now, "delete", d, Missing, 0, 0).q
            /\ UNCHANGED <<since, lost, loader>>
    /\ UNCHANGED <<now, ver, lists, cnt, request>>
CopyKeepsOld(d) ==
    /\ LoaderAt("copy") /\ d \in loader.todo
    /\ IF Table(d) # Nil THEN Get(d)
       ELSE Put(store(q, now, "set", d, loader.v, File[loader.v][d].len, 0), d)
    /\ loader' = Copied(d)
    /\ UNCHANGED <<now, ver, lists, cnt, request>>

\* One turn of the loop: a text that differs from the one in the dictionary
\* is stored there.  The answer of set is not looked at.
Copy(d) ==
    /\ LoaderAt("copy") /\ d \in loader.todo
    /\ IF Table(d) = File[loader.v][d] THEN Get(d)
       ELSE Put(store(getQueue(q, now, d), now, "set", d, loader.v, File[loader.v][d].len, 0), d)
    /\ loader' = Copied(d)
    /\ UNCHANGED <<now, ver, lists, cnt, request>>

\* freelock.  The lock is the only entry with a time to live, so the clock
\* starts again when it is gone.
Unlock ==
    /\ LoaderAt("unlock")
    /\ now' = 0
    /\ q' = IF loader.held THEN store(q, now, "delete", "lock", Missing, 0, 0).q ELSE q
    /\ loader' = [pc |-> "sleep", held |-> FALSE, v |-> 0, todo |-> {}]
    /\ UNCHANGED <<since, lost, ver, lists, cnt, request>>

(***************************************************************************)
(* The environment.                                                        *)
(***************************************************************************)

\* The operator saves a new version of the rule file.
Edit == /\ ver + 1 \in Version
        /\ ver' = ver + 1
        /\ UNCHANGED <<dict, now, loader, lists, cnt, request, lost>>

Asking == {r \in Req : pc[r] \in {"black", "white"}}

\* The operator adds an address to a list or takes it off, while a request
\* asks the lists (edits at other times amount to other initial lists).
Relist ==
    /\ \E r \in Asking : doubt[r] < MaxMoves
    /\ \E e \in Lists :
         \/ black' = (black \ {e}) \cup ({e} \ black) /\ UNCHANGED white
         \/ white' = (white \ {e}) \cup ({e} \ white) /\ UNCHANGED black
    /\ seen' = [r \in Req |-> IF r \in Asking
                 THEN seen[r] \cup {Standing(service[r], client[r], black', white')} ELSE seen[r]]
    /\ doubt' = [r \in Req |-> IF r \in Asking /\ doubt[r] < 2 THEN doubt[r] + 1 ELSE doubt[r]]
    /\ UNCHANGED <<dict, now, ver, loader, cnt, pc, client, service, rule, hold, basis, placed, lost>>

\* Time passes; only reading the file takes a noticeable part of the lock's
\* time to live.
Tick == /\ now < MaxNow /\ LoaderAt("read")
        /\ now' = now + 1
        /\ UNCHANGED <<dict, ver, loader, lists, cnt, request, lost>>

\* The master has stored two entries, and each worker has read first
\* "healthcheck" and then "default" when it started.
Init ==
    /\ q = <<Entry("default", 0, 1, 0), Entry("healthcheck", 0, 1, 0)>>
    /\ now = 0 /\ ver = 1
    /\ loader = [pc |-> "sleep", held |-> FALSE, v |-> 0, todo |-> {}]
    /\ black \in SUBSET Lists /\ white \in SUBSET Lists
    /\ cnt = <<>>
    /\ pc = [r \in Req |-> "idle"]
    /\ client = [r \in Req |-> CHOOSE c \in Clients[r] : TRUE]
    /\ service = [r \in Req |-> Nil] /\ rule = [r \in Req |-> Nil]
    /\ hold = [r \in Req |-> {}] /\ basis = [r \in Req |-> Nil]
    /\ placed = [r \in Req |-> {}]
    /\ seen = [r \in Req |-> {}] /\ doubt = [r \in Req |-> 0]
    /\ lost = [r \in Req |-> FALSE]
    /\ since = [k \in Key |-> IF k = "healthcheck" THEN {"default"} ELSE {}]

Loads == \/ Lock \/ Stat \/ ReadFile \/ (\E d \in Domain : Copy(d)) \/ Unlock

Next == \/ \E r \in Req : \/ Arrive(r) \/ Basic(r) \/ Black(r) \/ White(r) \/ ReqLimit(r)
                          \/ ConnLimit(r) \/ Reject(r) \/ Log(r)
        \/ Loads
        \/ Edit \/ Relist \/ Tick

\* Worker 0 goes on: nothing in read_conf_file waits, and its timer comes
\* back every 60 seconds.  It always has a next step, so weak fairness of
\* Loads is that it takes one again and again.  Requests arrive, and lists
\* change, as they like.
Spec == Init /\ [][Next]_vars /\ []<><<loader' # loader>>_vars

-----------------------------------------------------------------------------

TypeOK ==
    /\ \A i \in DOMAIN q : q[i].key \in Key /\ q[i].len \in Nat /\ q[i].exp \in 0..(MaxNow + LockTTL)
    /\ \A i, j \in DOMAIN q : q[i].key = q[j].key => i = j
    /\ Used(q) <= Capacity
    /\ now \in 0..MaxNow /\ ver \in Version
    /\ loader.pc \in {"sleep", "stat", "read", "copy", "unlock"}
    /\ loader.held \in BOOLEAN /\ loader.v \in 0..Len(File) /\ loader.todo \subseteq Domain
    /\ black \subseteq Lists /\ white \subseteq Lists
    /\ \A k \in DOMAIN cnt : cnt[k] \in Int \ {0}
    /\ pc \in [Req -> Phase]
    /\ \A r \in Req : /\ client[r] \in Clients[r]
                      /\ seen[r] \subseteq {"banned", "free"}
    /\ doubt \in [Req -> 0..3] /\ lost \in [Req -> BOOLEAN]
    /\ since \in [Key -> SUBSET Key]

\* Every counter is the number of requests that still have to take their 1
\* back from it, whatever reloads, renamed services, changed rules and
\* failing lookups happen between the INCR of connlimit_logic.lua and the
\* DECR of conn_redis.lua.
PlacesBalanced ==
    \A k \in DOMAIN cnt \cup UNION {placed[r] : r \in Req} :
        Counter(k) = Cardinality({r \in Req : k \in placed[r]})

\* The rule conn_limit_logic applies is the one the section means for this
\* client: the first network that contains the address as a number, the
\* client's own user, the common rule, or the default user.
RightRule ==
    \A r \in Req : rule[r] # Nil => IsRuleFor(File[basis[r]][Host[r]].connlimit, Located(client[r], ""), rule[r])

\* ip_rule asks two lists one after the other.  If neither query failed, a
\* request that goes on was free at some moment in between; one that is
\* refused was banned at some moment, unless the lists changed twice or
\* more while it asked.
ListsJudged ==
    [][\A r \in Req :
         /\ pc[r] \in {"black", "white"} /\ pc'[r] = "req" /\ doubt'[r] < 3 => "free" \in seen[r]
         /\ pc[r] = "white" /\ pc'[r] = "denied" /\ doubt'[r] < 2 => "banned" \in seen[r]]_vars

\* The section a request asks get_conf.app for at a place.
SectionAt(p) == CASE p = "basic" -> "basic" [] p = "req" -> "reqlimit" [] p = "conn" -> "connlimit"

\* A request that found its domain in get_domainconf fails with an error
\* only if the table it looks at lacks the section it asks for, or the
\* dictionary ran out of memory and dropped the domain meanwhile: replacing
\* a domain's text never shows a gap to get_conf.app.
FailsOnlyWithoutConf ==
    [][\A r \in Req : pc[r] # "failed" /\ pc'[r] = "failed" =>
         \/ lost[r]
         \/ lookup(q, now, Host[r]) = "ok" /\ Table(Host[r])[SectionAt(pc[r])] = Nil]_vars

\* The sizes of the entries the loader may store.
Lengths == {1} \cup UNION {{File[v][d].len : d \in {d \in Domain : File[v][d] # Nil}} : v \in Version}

\* Memory of the keys of S that are in the dictionary.
SizeOf(S) == FoldFunctionOnSet(LAMBDA e, n : e.len + n, 0, q, {i \in DOMAIN q : q[i].key \in S})

\* The key the loader's next step stores.
Storing == CASE LoaderAt("sleep") -> {"lock"}
             [] LoaderAt("stat") -> {"time"}
             [] OTHER -> loader.todo \ loader'.todo

\* A full dictionary drops the rules nobody has asked for: an entry goes
\* (other than by expiry, by unlocking, or by its own store that finds no
\* memory) only if it and what was used since its last use leave no room
\* for one more entry of the file.
UsedRulesKept ==
    [][\A k \in Key : /\ lookup(q, now, k) = "ok" /\ ~Has(q', k)
                      /\ ~(k = "lock" /\ LoaderAt("unlock")) /\ k \notin Storing
                      => \E len \in Lengths : SizeOf({k} \cup since[k]) + len > Capacity]_vars

\* The time of the file is recorded before the file is read, the file may be
\* saved again in between, and the dictionary may drop what has been copied,
\* or the time.  Still, when the recorded time is the file's and no load is
\* under way, no domain of the file has another text in the dictionary.
RecordedMeansCurrent ==
    getValue(q, now, "time") = ver /\ loader.pc \notin {"read", "copy"} =>
        \A d \in Domain : File[ver][d] # Nil => Table(d) \in {Nil, File[ver][d]}

\* Once the file is not edited any more, every domain of it that the
\* dictionary has is the one of the file, although the dictionary may drop
\* domains and the recorded time at any store.
CurrentOrMissing ==
    <>[](\A d \in Domain : File[ver][d] # Nil => Table(d) \in {Nil, File[ver][d]})
=============================================================================
