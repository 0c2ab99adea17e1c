------------------------------ MODULE Options ------------------------------
(***************************************************************************)
(* The miner's configuration: Options (Options.cpp) reading the command    *)
(* line and JSON files into a list of pools (Url.cpp) and numbers, and     *)
(* OclCLI::autoConf() choosing the GPU threads from them.                  *)
(*                                                                         *)
(* The user, the password, keepalive and nicehash go to the last pool in   *)
(* the same way; the user stands for them.  A user is known by the URL     *)
(* argument it was written after, which is what the program has to get     *)
(* right.  Texts are not modelled, but a URL has the parts that decide     *)
(* how Url::parse() takes it.                                              *)
(***************************************************************************)
EXTENDS Integers, Sequences, SequencesExt

CONSTANTS
  UrlArgs,   \* URLs that may be written: scheme, host, IPv6 or not, port
  Numbers,   \* numbers that may be written for --intensity, --platform-index, --port
  Configs,   \* configuration files that may be loaded
  Devices,   \* the GPUs of the AMD platform, in order: kind, free memory, compute units
  Platform,  \* the index of the AMD platform, -1 if there is none
  Reserve,   \* memory that autoConf() leaves alone (code: 128 MiB)
  PerThread, \* memory of one hash (code: 2 MiB, 1 MiB for cryptonight-lite, + 224)
  MaxVega,   \* limits of autoConf() (code: 2024 and 1000)
  MaxOther,
  MaxArgs,   \* bound on the length of the command line
  NoUrl,     \* the origin of a setting written before any URL
  BuiltInUrl,
  None

ASSUME OptionsAssumption ==
  /\ UrlArgs \subseteq [scheme : {"", "stratum+tcp", "other"}, host : {"", "a", "b"},
                        v6 : BOOLEAN, port : Int \cup {None}]
  /\ Numbers \subseteq Int /\ MaxArgs \in Nat /\ Platform \in Nat \cup {-1}
  /\ None \notin UrlArgs /\ None # "built-in"
  /\ \A c \in Configs :
       /\ c.pools \in Seq([url : UrlArgs \cup {None}, user : BOOLEAN, variant : Int \cup {None}])
       /\ c.port \in Int \cup {None} /\ c.power_limit \in Int
       /\ c.threads \in Seq([index : Nat, intensity : Nat, auto : {FALSE}])
  /\ Devices \in Seq([vega : BOOLEAN, freeMem : Nat, computeUnits : Nat \ {0}])
  /\ {Reserve, PerThread, MaxVega, MaxOther} \subseteq Nat \ {0}

VARIABLES
  self,   \* the members of Options: m_pools, m_threads (with auto, history: chosen
          \* by autoConf()) and the numbers
  seen,   \* history: the URLs written that are valid by themselves, the URL
          \* written last, and whether a URL was dropped without an error
  stage,  \* "args", then "ready" and "started" (oclInit() done), or "refused"
  args    \* arguments read so far

optionsVars == <<self, seen, stage, args>>

-----------------------------------------------------------------------------
\* Url::Url(): no host, the default port; from is the argument it comes from.
kDefaultPort == 3333

\* The values of a uint16_t, the type of a port.
UInt16 == 65536

Url == [host |-> None, port |-> kDefaultPort, user |-> None, variant |-> -1, from |-> None]

\* The built-in pool of Options::Options().
BuiltIn == [Url EXCEPT !.host = "built-in", !.port = 3355,
                        !.user = BuiltInUrl, !.from = BuiltInUrl]

isValid(url) == url.host # None /\ url.port > 0

\* Url::parse() and parseIPv6(): an address that cannot be split leaves the Url
\* as it was; without a port the Url keeps its own; a port is cut to 16 bits.  A host
\* that is empty before a port is a host.
parse(url, a) ==
  IF a.scheme = "other" \/ ((a.host = "" \/ a.v6) /\ a.port = None) THEN url
  ELSE [url EXCEPT !.host = a.host, !.from = a,
                   !.port = IF a.port = None THEN @ ELSE a.port % UInt16]

\* Mutant: a later URL is appended without a look at it.
AddUrlMutant(pools, a) ==
  IF Len(pools) > 1 \/ isValid(pools[1]) THEN Append(pools, parse(Url, a))
  ELSE <<parse(pools[1], a)>>

\* Options::parseArg(), --url: the first pool takes the first URL that makes it
\* valid; later ones append a pool if they are valid and are dropped if not.
AddUrl(pools, a) ==
  IF Len(pools) > 1 \/ isValid(pools[1])
  THEN IF isValid(parse(Url, a)) THEN Append(pools, parse(Url, a)) ELSE pools
  ELSE <<parse(pools[1], a)>>

\* m_pools.back(), the pool that settings go to.
back(pools) == Len(pools)

SetUser(pools, after) ==
  [pools EXCEPT ![back(pools)].user = IF after = None THEN NoUrl ELSE after]

\* Url::setVariant(int).
SetVariant(pools, n) ==
  IF n \in {-1, 0, 1} THEN [pools EXCEPT ![back(pools)].variant = n] ELSE pools

\* What is remembered of a URL: given if it is valid by itself, lost if the list
\* of pools ends up without it.
Remember(h, before, a) ==
  LET after == AddUrl(before, a)
      valid == isValid(parse(Url, a))
  IN  [h EXCEPT !.given = IF valid THEN Append(@, a) ELSE @,
                !.lost = @ \/ ~valid \/ ~isValid(after[back(after)]),
                !.latest = a]

-----------------------------------------------------------------------------
\* One argument of the command line.
Read == stage = "args" /\ args < MaxArgs /\ args' = args + 1

\* --url: the program ends if the last pool is not valid.
ArgUrl(a) ==
  /\ Read
  /\ self' = [self EXCEPT !.pools = AddUrl(@, a)]
  /\ seen' = Remember(seen, self.pools, a)
  /\ stage' = IF isValid(self'.pools[back(self'.pools)]) THEN "args" ELSE "refused"

\* --user, --pass, --keepalive, --nicehash.
ArgUser ==
  /\ Read
  /\ self' = [self EXCEPT !.pools = SetUser(@, seen.latest)]
  /\ UNCHANGED <<seen, stage>>

\* --variant: the text goes to parseArg(int, int64_t), which does not know it, so
\* that the option has no effect.
ArgVariant == Read /\ UNCHANGED <<self, seen, stage>>

\* --intensity and --platform-index.
ArgNumber(key, n) ==
  /\ Read
  /\ self' = [self EXCEPT ![key] = n]
  /\ UNCHANGED <<seen, stage>>

\* --port: larger numbers, and with them the negative ones, are ignored.
SetPort(port, n) == IF 0 <= n /\ n <= UInt16 THEN n ELSE port

ArgPort(n) ==
  /\ Read
  /\ self' = [self EXCEPT !.port = SetPort(@, n)]
  /\ UNCHANGED <<seen, stage>>

\* --help, --version, an option that getopt_long() does not know, an unknown
\* algorithm, or an argument that is no option.
ArgRefused == Read /\ stage' = "refused" /\ UNCHANGED <<self, seen>>

-----------------------------------------------------------------------------
\* Options::parseConfig() for one object of "pools": the URL, the user and the
\* variant if they are there.  The result of parseArg() is not looked at.  A
\* variant reaches parseArg(int, uint64_t) only if it is not negative.
AddPool(s, p) ==
  LET has == p.url # None
      url == IF has THEN AddUrl(s.pools, p.url) ELSE s.pools
      h == IF has THEN Remember(s.seen, s.pools, p.url) ELSE s.seen
      user == IF p.user THEN SetUser(url, h.latest) ELSE url
  IN  [pools |-> IF p.variant \in Nat THEN SetVariant(user, p.variant) ELSE user,
       seen |-> h]

AddPools(pools) ==
  LET state[i \in 0 .. Len(pools)] ==
        IF i = 0 THEN [pools |-> self.pools, seen |-> seen]
        ELSE AddPool(state[i - 1], pools[i])
  IN  state[Len(pools)]

\* The built-in pool takes the place of a first pool that is not valid.
OrBuiltIn(pools) == IF isValid(pools[1]) THEN pools ELSE [pools EXCEPT ![1] = BuiltIn]

\* The rest of a file.  power_limit is signed, but an unsigned number goes to
\* parseArg(int, uint64_t), which does not know it; "intensity" is not among
\* config_options.
LoadFile(c, pools) ==
  /\ self' = [self EXCEPT
                !.pools = pools,
                !.port = IF c.port = None THEN @ ELSE SetPort(@, c.port),
                !.powerLimit = IF c.power_limit < 0 THEN c.power_limit ELSE @,
                !.threads = @ \o c.threads]
  /\ seen' = AddPools(c.pools).seen

\* --config; a file that cannot be opened or parsed is passed over.
ArgConfig(c) == Read /\ LoadFile(c, AddPools(c.pools).pools) /\ UNCHANGED stage

ArgBadConfig == Read /\ UNCHANGED <<self, seen, stage>>

\* The end of Options::Options(): the default file if there is no pool yet, and
\* the built-in pool if there is still none.
Finish ==
  /\ stage = "args" /\ isValid(self.pools[1])
  /\ stage' = "ready"
  /\ UNCHANGED <<self, seen, args>>

FinishWithDefault(c) ==
  /\ stage = "args" /\ ~isValid(self.pools[1])
  /\ LoadFile(c, OrBuiltIn(AddPools(c.pools).pools))
  /\ stage' = "ready"
  /\ UNCHANGED args

FinishWithoutDefault ==
  /\ stage = "args" /\ ~isValid(self.pools[1])
  /\ self' = [self EXCEPT !.pools = OrBuiltIn(@)]
  /\ stage' = "ready"
  /\ UNCHANGED <<seen, args>>

-----------------------------------------------------------------------------
\* OclCLI::autoConf(): the most that a GPU can take, and the multiple of eight per
\* compute unit below it.  With too little memory the difference wraps around.
MaxIntensity(d) ==
  LET most == IF d.vega THEN MaxVega ELSE MaxOther
      fit == (d.freeMem - Reserve) \div PerThread
  IN  IF d.freeMem >= Reserve /\ fit < most THEN fit ELSE most

RawIntensity(d) == (MaxIntensity(d) \div (8 * d.computeUnits)) * d.computeUnits * 8

\* The threads of one GPU: two on a Vega.
GpuThreads(i) ==
  [k \in 1 .. IF Devices[i].vega THEN 2 ELSE 1 |->
     [index |-> i, auto |-> TRUE,
      intensity |-> IF self.intensity # 0 THEN self.intensity ELSE RawIntensity(Devices[i])]]

\* Options::oclInit(): without threads of a file, autoConf() looks for the platform
\* and configures every GPU on it.
OclInit ==
  /\ stage = "ready"
  /\ self' = IF self.threads # <<>> THEN self
             ELSE [self EXCEPT
                     !.platform = Platform,
                     !.threads = IF Platform = -1 THEN <<>>
                                 ELSE FlattenSeq([i \in DOMAIN Devices |-> GpuThreads(i)])]
  /\ stage' = "started"
  /\ UNCHANGED <<seen, args>>

OptionsInit ==
  /\ self = [pools |-> <<Url>>, port |-> 0, intensity |-> 0, platform |-> 0,
             powerLimit |-> 0, threads |-> <<>>]
  /\ seen = [given |-> <<>>, lost |-> FALSE, latest |-> None]
  /\ stage = "args" /\ args = 0

OptionsNext ==
  \/ \E a \in UrlArgs : ArgUrl(a)
  \/ ArgUser
  \/ ArgVariant
  \/ \E key \in {"intensity", "platform"}, n \in Numbers \cap Nat : ArgNumber(key, n)
  \/ \E n \in Numbers : ArgPort(n)
  \/ ArgRefused
  \/ \E c \in Configs : ArgConfig(c)
  \/ ArgBadConfig
  \/ Finish
  \/ \E c \in Configs : FinishWithDefault(c)
  \/ FinishWithoutDefault
  \/ OclInit

OptionsSpec == OptionsInit /\ [][OptionsNext]_optionsVars

-----------------------------------------------------------------------------
Ready == stage \in {"ready", "started"}

\* Every pool and number has its type, and there is always a last pool for the
\* settings to go to (Options.cpp).
OptionsTypeOK ==
  /\ Len(self.pools) > 0
  /\ \A i \in DOMAIN self.pools :
        /\ self.pools[i].port \in 0 .. UInt16 - 1
        /\ self.pools[i].variant \in {-1, 0, 1}
        /\ self.pools[i].user \in UrlArgs \cup {None, NoUrl, BuiltInUrl}
  /\ self.port \in 0 .. UInt16 /\ self.powerLimit \in Int
  /\ stage \in {"args", "ready", "started", "refused"} /\ args \in 0 .. MaxArgs

\* A miner that starts works for the valid URLs it was given, in their order, each
\* with its own address and port, and for the built-in pool only if there was
\* none.  A valid URL can be lost behind one with port 0 that spoilt the first
\* Url object (Options.cpp, constructor and parseArg; Url.cpp, parse).
PoolsAreTheGivenUrls ==
  Ready =>
    /\ \A i \in DOMAIN self.pools : isValid(self.pools[i])
    /\ ~seen.lost =>
         [i \in DOMAIN self.pools |-> self.pools[i].from]
           = IF seen.given = <<>> THEN <<BuiltInUrl>> ELSE seen.given

\* A user name is used for the URL it was written after, or, if it was written
\* before any, for the first pool; unless a URL was dropped, whose settings then
\* go to the pool before it (Options.cpp, parseArg).
UsersFollowTheirUrl ==
  (Ready /\ ~seen.lost) =>
    \A i \in DOMAIN self.pools :
      LET url == self.pools[i] IN
      \/ url.user \in {None, url.from}
      \/ i = 1 /\ url.user = NoUrl

\* The threads that autoConf() chooses fit, each by itself, into the memory of
\* their GPU (OclCLI.cpp, autoConf).
AutoThreadsFit ==
  (stage = "started" /\ self.intensity = 0) =>
    \A k \in DOMAIN self.threads :
      LET t == self.threads[k] IN
      (t.auto /\ Devices[t.index].freeMem >= Reserve) =>
        t.intensity * PerThread <= Devices[t.index].freeMem - Reserve

\* Whatever is written on the command line and in the files, a miner that starts has
\* the right pools with the right users, numbers within their limits, and threads
\* that fit (Options.cpp; OclCLI.cpp, autoConf).
OptionsInvariant ==
  OptionsTypeOK /\ PoolsAreTheGivenUrls /\ UsersFollowTheirUrl /\ AutoThreadsFit
=============================================================================
