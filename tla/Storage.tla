------------------------------- MODULE Storage -------------------------------
(***************************************************************************)
(* hal::StorageDevice with its StorageMountPolicy: the card is mounted at  *)
(* boot, or later by the samples of the diagnostics service, one a second, *)
(* which try again two seconds after a mount that failed.  The card, the   *)
(* SPI driver and the file system are external.                            *)
(***************************************************************************)
EXTENDS Naturals

CONSTANTS StorageDrivers,   \* the ways a board wires a card
          RetrySamples      \* samples that pass within retry_interval_us_

ASSUME StorageAssumption ==
  /\ StorageDrivers \subseteq {"none", "sdspi", "sdmmc"}
  /\ RetrySamples \in Nat

VARIABLES driver,    \* config_.driver
          storage    \* bus_initialized_, mounted_, health_.state; wait: the
                     \* samples to let pass before a retry

storageVars == <<driver, storage>>

NoCard == [bus |-> FALSE, mounted |-> FALSE, wait |-> 0, health |-> "stopped"]

StorageInit == driver \in StorageDrivers /\ storage = NoCard

MountSucceeded(s) == [s EXCEPT !.mounted = TRUE, !.wait = 0, !.health = "ready"]

Waits(s) == [s EXCEPT !.mounted = FALSE, !.wait = RetrySamples]

\* The bus is freed before the failure is noted.
MountFailed(s) == [Waits(s) EXCEPT !.bus = FALSE, !.health = "degraded"]

\* What start() may leave: it mounts over the SPI bus, which may be refused
\* (then nothing is noted and the device stays "starting"), or over SDMMC,
\* with four lines and then with one.
StorageAttempts(s) ==
  IF s.mounted THEN {s} ELSE
    CASE driver = "none"  -> {[s EXCEPT !.health = "degraded"]}
      [] driver = "sdspi" -> LET begun == [s EXCEPT !.bus = TRUE]
                             IN {[s EXCEPT !.health = "starting"],
                                 MountSucceeded(begun), MountFailed(begun)}
      [] driver = "sdmmc" -> {MountSucceeded(s), MountFailed(s)}

StorageStarts ==
  /\ storage' \in {s \in StorageAttempts(storage) : s.mounted}
  /\ UNCHANGED driver

StorageFails ==
  /\ \E s \in StorageAttempts(storage) : ~s.mounted
  /\ storage' = NoCard
  /\ UNCHANGED driver

StorageStops == storage' = NoCard /\ UNCHANGED driver

\* poll(): StorageMountPolicy::should_attempt
ShouldAttempt(s) == driver # "none" /\ ~s.mounted /\ s.wait = 0

Sample ==
  /\ driver # "none" /\ ~storage.mounted
  /\ storage' \in IF ShouldAttempt(storage) THEN StorageAttempts(storage)
                  ELSE {[storage EXCEPT !.wait = @ - 1]}
  /\ UNCHANGED driver

-----------------------------------------------------------------------------
\* The SPI bus is held exactly for a mounted card, and health tells of it.
StorageConsistent ==
  /\ storage.bus <=> storage.mounted /\ driver = "sdspi"
  /\ storage.mounted <=> storage.health = "ready"
=============================================================================
