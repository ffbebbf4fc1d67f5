--------------------------- MODULE MCFlipRefresh ----------------------------
(* Two components for TLC that do not touch each other: the thread flip    *)
(* and odrefresh.  The first state chooses the one that runs; the          *)
(* variables of the other stay as they are.                                *)
EXTENDS ThreadFlip, Sequences

CONSTANTS isa, jar, None, Torn, Empty

VARIABLES part
\* of odrefresh
VARIABLES system, config, env, boots, data, cacheInfo, step, result, keep, required, jobs,
          failed, kind, saved

odrVars == <<system, config, env, boots, data, cacheInfo, step, result, keep, required, jobs,
             failed, kind, saved>>
all == <<part, vars, odrVars>>

Versions(art, main, ss) == [art |-> art, main |-> main, ss |-> ss]

(* One ISA with both boot images on /system and one jar that is not, on    *)
(* the factory versions or after an update of one of the modules; three    *)
(* boots, so that what a crash or a failure leaves of older artifacts is   *)
(* checked and compiled over; a first and a last file in an artifact.      *)
Odr == INSTANCE OnDeviceRefresh WITH
    pc <- step, Isas <- {isa}, SystemServerIsa <- isa, Jars <- <<jar>>,
    MaxBoots <- 3, NumFiles <- 2,
    Envs <- {Versions(0, 0, 0), Versions(1, 0, 0), Versions(0, 1, 0), Versions(0, 0, 1)},
    Systems <- {{<<isa, "primary">>, <<isa, "mainline">>}},
    Configs <- {[partial |-> p, refresh |-> TRUE] : p \in BOOLEAN}

NoOdr ==
    /\ system = None /\ config = None /\ env = None /\ boots = None
    /\ data = None /\ cacheInfo = None /\ step = None /\ result = None
    /\ keep = None /\ required = None /\ jobs = None /\ failed = None
    /\ kind = None /\ saved = None

MCInit ==
    /\ Init
    /\ \/ part = "flip" /\ NoOdr
       \/ part = "odrefresh" /\ Odr!Init

MCNext ==
    \/ part = "flip" /\ Next /\ UNCHANGED <<part, odrVars>>
    \/ part = "odrefresh" /\ Odr!Next /\ UNCHANGED <<part, vars>>

(* Of the flip; odrefresh may stop anywhere.                               *)
Flips(A) == part = "flip" /\ A /\ UNCHANGED <<part, odrVars>>

MCSpec ==
    /\ MCInit /\ [][MCNext]_all
    /\ \A t \in Mutators :
        /\ WF_all(Flips(MutatorStep(t)))
        /\ WF_all(Flips(OtherResume(t) \/ OtherBroadcast(t)))
        /\ SF_all(Flips(DecrementDisableThreadFlip(t)))
    /\ WF_all(Flips(CollectorStep))

-----------------------------------------------------------------------------
(* odrefresh leaves no stale or torn artifact behind when it reports       *)
(* success or that all is up to date; when it reports success there is     *)
(* nothing left to compile; and, as GetBestBootImages CHECKs, when a jar   *)
(* is compiled a primary boot image on /data comes with its mainline       *)
(* extension.                                                              *)
ArtifactsSound ==
    part = "odrefresh" =>
        Odr!NoStaleArtifacts /\ Odr!SuccessSettles /\ Odr!ImagesComeTogether
=============================================================================
