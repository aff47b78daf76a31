-------------------------------- MODULE MCParts --------------------------------
(***************************************************************************)
(* The parts that work alone, for TLC: in each behaviour one of them runs  *)
(* and the others rest.                                                    *)
(*                                                                         *)
(* Resample: sessions that begin at ten of the 24 bytes of a frame, among  *)
(* them the first and the last byte of a sample with a mark; blocks with   *)
(* the marks alone, with negative sound in channels one and two or in one  *)
(* of them (the sign is in byte 3 of a sample), with the bit in channel    *)
(* five's first byte, with one mark missing, and of a device that is not   *)
(* set up.                                                                 *)
(***************************************************************************)
EXTENDS Resample, SoundHealth, CardLookup, JniBridge, CpuBurner, PcmFile, MicNumber

VARIABLE part  \* the part that runs

MCSkews == {0, 1, 3, 4, 5, 7, 11, 16, 20, 23}
MCSounds == {{0, 4}, {0, 3, 4, 7}, {0, 4, 7}, {0, 4, 16}, {4}, {}}

Parts == {"resample", "health", "lookup", "jni", "cpu", "file", "mic"}

partsVars == <<part, vars, healthVars, lookupVars, jniVars, cpuVars, fileVars, micVars>>

PartsInit ==
  /\ part \in Parts
  /\ Init /\ (part # "resample" => skew = 0)
  /\ HealthInit
  /\ LookupInit /\ (part # "lookup" => \A c \in Numbers : cards[c] = NoCard)
  /\ JniInit
  /\ CpuInit
  /\ FileInit
  /\ MicInit

\* The part p makes a step; the variables of the others stay.
Only(p, A, others) == part = p /\ A /\ UNCHANGED <<part, others>>

OnlyResample(A) ==
  Only("resample", A, <<healthVars, lookupVars, jniVars, cpuVars, fileVars, micVars>>)
OnlyHealth(A) ==
  Only("health", A, <<vars, lookupVars, jniVars, cpuVars, fileVars, micVars>>)
OnlyLookup(A) ==
  Only("lookup", A, <<vars, healthVars, jniVars, cpuVars, fileVars, micVars>>)
OnlyJni(A) ==
  Only("jni", A, <<vars, healthVars, lookupVars, cpuVars, fileVars, micVars>>)
OnlyCpu(A) ==
  Only("cpu", A, <<vars, healthVars, lookupVars, jniVars, fileVars, micVars>>)
OnlyFile(A) ==
  Only("file", A, <<vars, healthVars, lookupVars, jniVars, cpuVars, micVars>>)
OnlyMic(A) ==
  Only("mic", A, <<vars, healthVars, lookupVars, jniVars, cpuVars, fileVars>>)

PartsNext ==
  \/ OnlyResample(Next) \/ OnlyHealth(HealthNext) \/ OnlyLookup(LookupNext)
  \/ OnlyJni(JniNext) \/ OnlyCpu(CpuNext) \/ OnlyFile(FileNext)
  \/ OnlyMic(MicNext)

\* The record thread keeps resampling (Resample!Spec), and the threads of
\* android_cpu.c run.
PartsSpec ==
  /\ PartsInit /\ [][PartsNext]_partsVars
  /\ WF_partsVars(OnlyResample(ReSamples))
  /\ WF_partsVars(OnlyCpu(DestroyJoin))
  /\ \A b \in Burners : WF_partsVars(OnlyCpu(BurnerEnds(b)))

=============================================================================
