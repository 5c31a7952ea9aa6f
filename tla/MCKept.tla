----------------------------------- MODULE MCKept -----------------------------------
(***************************************************************************)
(* What the program keeps, each in a small instance of its own: load       *)
(* gates, rings of messages, the caches of media on disk and in memory,    *)
(* and the directory of guilds and channels, the read state, the files of  *)
(* a launch and the tombstones, whose modules this one extends.            *)
(***************************************************************************)
EXTENDS Tombstones, Launch, ReadState, Directory, TLC

CONSTANTS p1, p2, p3, k1, k2, k3, c1, c2, g, n1, NoNonce, parent, thread, other

\* One guild with two channels and a thread (direct messages are in MCApp's instance).
OneGuild == (parent :> g) @@ (thread :> g) @@ (other :> g)
OneThread == (parent :> NoParent) @@ (thread :> parent) @@ (other :> NoParent)

\* Two programs with caches of two and of three files.
LimitOf == (p1 :> 2) @@ (p2 :> 3)

VARIABLES
  part, \* the component that runs
  gateGate, gateToken,
  ringBuf, ringStart, ringSize,
  diskDisk, diskAt, diskAnswer, diskNow,
  decodedLru, decodedLruBytes, decodedLatest

Gate == INSTANCE LoadGate WITH
  Loaders <- {p1, p2, p3}, MaxVersion <- 3, gate <- gateGate, token <- gateToken

Ring == INSTANCE MessageRing WITH
  HistoryLimit <- 3, Ids <- {1, 2, 3, 4}, Nonces <- {n1}, MaxBody <- 1, buf <- ringBuf,
  start <- ringStart, size <- ringSize

Media == INSTANCE DiskCache WITH
  Procs <- {p1, p2}, Keys <- {k1, k2}, Sizes <- {1, 3}, LimitOf <- LimitOf, MaxBytes <- 4,
  Ttl <- 1, MaxTime <- 2, disk <- diskDisk, at <- diskAt, answer <- diskAnswer, now <- diskNow

Mem == INSTANCE DecodedCache WITH
  Keys <- {k1, k2, k3}, Bytes <- {0, 1, 2, 5, 6}, MaxSize <- 2, MaxBytes <- 5, lru <- decodedLru,
  lruBytes <- decodedLruBytes, latest <- decodedLatest

gateVars == <<gateGate, gateToken>>
ringVars == <<ringBuf, ringStart, ringSize>>
diskVars == <<diskDisk, diskAt, diskAnswer, diskNow>>
decodedVars == <<decodedLru, decodedLruBytes, decodedLatest>>
varss == <<part, gateVars, dirVars, ringVars, launchVars, diskVars, decodedVars, readVars, vars>>

\* The component is chosen once; the others stay as they start.
InitAll ==
  /\ part \in {"gate", "dir", "ring", "launch", "disk", "decoded", "read", "tombstones"}
  /\ Init /\ (part # "tombstones" => gen = 0 /\ deleted = {})
  /\ Gate!Init
  /\ DirInit
  /\ Ring!Init
  /\ LaunchInit /\ (part # "launch" => toml = None /\ tokens = {})
  /\ Media!Init
  /\ Mem!Init
  /\ ReadInit

NextAll ==
  \/ part = "gate" /\ Gate!Next /\ UNCHANGED <<part, dirVars, ringVars, launchVars, diskVars, decodedVars, readVars, vars>>
  \/ part = "dir" /\ DirNext /\ UNCHANGED <<part, gateVars, ringVars, launchVars, diskVars, decodedVars, readVars, vars>>
  \/ part = "ring" /\ Ring!Next /\ UNCHANGED <<part, gateVars, dirVars, launchVars, diskVars, decodedVars, readVars, vars>>
  \/ part = "launch" /\ LaunchNext /\ UNCHANGED <<part, gateVars, dirVars, ringVars, diskVars, decodedVars, readVars, vars>>
  \/ part = "disk" /\ Media!Next /\ UNCHANGED <<part, gateVars, dirVars, ringVars, launchVars, decodedVars, readVars, vars>>
  \/ part = "decoded" /\ Mem!Next /\ UNCHANGED <<part, gateVars, dirVars, ringVars, launchVars, diskVars, readVars, vars>>
  \/ part = "read" /\ ReadNext /\ UNCHANGED <<part, gateVars, dirVars, ringVars, launchVars, diskVars, decodedVars, vars>>
  \/ part = "tombstones" /\ Next /\ UNCHANGED <<part, gateVars, dirVars, ringVars, launchVars, diskVars, decodedVars, readVars>>

SpecAll == InitAll /\ [][NextAll]_varss

(* ------------------------------ properties ----------------------------- *)

\* What is kept within bounds: at most one load of a gate is current, and a pending gate has
\* one that will open it; a ring of slots is the bounded window of messages; and the caches of
\* media on disk and in memory keep to their limits and serve what was put last
\* (app/resource_gate.go, store/ring.go, media/cache.go).
BoundsKept ==
  /\ [](part = "gate" => Gate!IInv)
  /\ [][part = "ring" => Ring!AsTheWindow]_ringVars
  /\ [](part = "disk" => Media!SettledInBudget /\ Media!ServedFits)
  /\ [](part = "decoded" => Mem!WithinLimits /\ Mem!LatestOnly)
  /\ Mem!PutStays

\* The channels of the read state are interchangeable.
Symmetry == Permutations({c1, c2})
=============================================================================
