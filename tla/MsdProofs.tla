------------------------------ MODULE MsdProofs ------------------------------
(***************************************************************************)
(* Proofs about MsdApp, for any number of losses of power: what is on the  *)
(* drive and in the datastore at each step of a start, and across starts.  *)
(***************************************************************************)
EXTENDS MsdApp, TLAPS

\* The functions of MSD_APP_STATE_TOUCH_FILE, and those from one of them on.
FromConfig == {"WriteConfig", "ReadConfig", "ReadCloud"}
FromKeys == {"Keys"} \cup FromConfig
FromCerts == {"Certs"} \cup FromKeys
FromSerial == {"Serial"} \cup FromCerts
FromAtca == {"Atca"} \cup FromSerial
Touching == {"Version", "Error"} \cup FromAtca

Attached == msd \in {"CONNECT_USB", "RUNNING"}

\* Where the queue can hold something, and which state a function belongs to.
Control ==
    /\ phase \in Touching <=> msd = "TOUCH_FILE"
    /\ phase = "Format" => msd = "CLEAR_DRIVE"
    /\ phase \in {"Idle", "Format", "Atca", "ReadConfig", "ReadCloud", "Error"} => queue = <<>>
    /\ open => queue # <<>>

\* How far the datastore is filled.
Filled ==
    /\ serialNumValid => phase \in FromSerial \cup {"Error"} \/ Attached
    /\ phase \in {"Serial", "Certs", "Keys"} => serialNumValid
    /\ phase \in FromConfig => serialNumValid \/ silent
    /\ wifiCtrlValid => phase \in {"ReadCloud", "Error"} \/ Attached
    /\ wifiCtrlValid => wifiCtrl # "None"
    /\ phase = "ReadCloud" => wifiCtrlValid \/ silent
    /\ mqttConfigValid => Attached

\* ERROR.txt of an earlier start is gone before a file is written, or something failed.
ErrorFileFresh ==
    /\ msd = "INIT" => errFile # "New"
    /\ msd = "WAIT_FS_MOUNT" => errFile # "New" /\ ~silent
    /\ phase = "Format" => errFile = "None"
    /\ phase \in Touching => errFile = "None" \/ (errFile = "Old" /\ silent)
    /\ Attached => IF Configured THEN errFile = "None" \/ (errFile = "Old" /\ silent)
                   ELSE errFile = "New" \/ silent

UserFiles == {"config", "cloud", "serial"}

\* A file of the user's is written only if it is missing, as the last of its function.
QueueSparesUser ==
    \A i \in DOMAIN queue :
        queue[i] \in UserFiles =>
            /\ i = Len(queue)
            /\ drive[queue[i]] = "Missing" \/ (open /\ i = 1)
            /\ queue[i] = "cloud" => phase = "Certs"

MsdBase == MsdTypeOK /\ Control /\ Filled /\ ErrorFileFresh /\ QueueSparesUser

-----------------------------------------------------------------------------
Queued(f) == \E i \in DOMAIN queue : queue[i] = f

CertSet == {"cer", "rootCert", "deviceCert", "clickme", "voice", "cloud"}

\* In these functions, or after them with all that was to be read.
Reached(functions) == phase \in functions \/ (Attached /\ Configured)

\* None of the files is missing but those that are still to be written.
Written(files) == \A f \in files : Missing(f) => Queued(f)

\* What each function leaves behind, and, across starts, that cloud.json comes last.
Present ==
    /\ Missing("cer") \/ Missing("voice") => Missing("cloud")
    /\ phase = "Version" => Written({"version"})
    /\ Reached(FromAtca) => Written({"version"}) \/ silent
    /\ serialNumValid /\ Reached(FromSerial) => Written({"serial"})
    /\ serialNumValid /\ Reached(FromCerts) => Written(CertSet)
    /\ serialNumValid /\ Reached(FromKeys) => Written({"slot0", "slot4"})
    /\ serialNumValid /\ Reached(FromConfig) => Written({"config"})

MsdInv == MsdBase /\ Present

-----------------------------------------------------------------------------
(* The files and the queues.                                                 *)

AllFiles == {"version", "serial", "cloud", "config", "cer", "rootCert", "deviceCert",
             "clickme", "voice", "slot0", "slot4", "certKeys"}

LEMMA FixedQueues ==
    /\ DOMAIN CertFiles = 1 .. 5 /\ Len(CertFiles) = 5 /\ CertFiles \in Seq(AllFiles)
    /\ DOMAIN KeyFiles = 1 .. 3 /\ Len(KeyFiles) = 3 /\ KeyFiles \in Seq(AllFiles)
<1>1. CertFiles \in Seq(AllFiles) BY DEF CertFiles, AllFiles
<1>2. KeyFiles \in Seq(AllFiles) BY DEF KeyFiles, AllFiles
<1>3. Len(CertFiles) = 5 /\ DOMAIN CertFiles = 1 .. 5 BY DEF CertFiles
<1>4. Len(KeyFiles) = 3 /\ DOMAIN KeyFiles = 1 .. 3 BY DEF KeyFiles
<1> QED BY <1>1, <1>2, <1>3, <1>4

LEMMA FilesAre == Files = AllFiles
<1>1. {CertFiles[i] : i \in DOMAIN CertFiles}
        = {"cer", "rootCert", "deviceCert", "clickme", "voice"}
  <2>1. \A i \in 1 .. 5 : i = 1 \/ i = 2 \/ i = 3 \/ i = 4 \/ i = 5 OBVIOUS
  <2> QED BY <2>1, FixedQueues DEF CertFiles
<1>2. {KeyFiles[i] : i \in DOMAIN KeyFiles} = {"slot0", "slot4", "certKeys"}
  <2>1. \A i \in 1 .. 3 : i = 1 \/ i = 2 \/ i = 3 OBVIOUS
  <2> QED BY <2>1, FixedQueues DEF KeyFiles
<1> QED BY <1>1, <1>2 DEF Files, AllFiles

LEMMA ShortQueue ==
    /\ <<>> \in Seq(Files) /\ DOMAIN <<>> = {}
    /\ \A f \in Files : /\ <<f>> \in Seq(Files) /\ <<f>> # <<>>
                        /\ DOMAIN <<f>> = {1} /\ Len(<<f>>) = 1 /\ <<f>>[1] = f
OBVIOUS

LEMMA AppendFacts ==
    ASSUME NEW S, NEW s \in Seq(S), NEW e \in S
    PROVE  /\ Append(s, e) \in Seq(S) /\ Len(Append(s, e)) = Len(s) + 1
           /\ DOMAIN Append(s, e) = 1 .. Len(s) + 1
           /\ \A i \in 1 .. Len(s) : Append(s, e)[i] = s[i]
           /\ Append(s, e)[Len(s) + 1] = e
OBVIOUS

\* MSD_APP_Write_certs has cloud.json last, if it writes it at all.
LEMMA QueueOfCerts ==
    /\ CertQueue \in Seq(Files) /\ CertQueue # <<>>
    /\ \A i \in DOMAIN CertQueue :
          /\ CertQueue[i] \in CertSet
          /\ CertQueue[i] = "cloud" => i = Len(CertQueue) /\ Missing("cloud")
    /\ \A f \in CertSet :
          f # "cloud" \/ Missing("cloud") => \E i \in DOMAIN CertQueue : CertQueue[i] = f
<1>1. /\ CertFiles[1] = "cer" /\ CertFiles[2] = "rootCert" /\ CertFiles[3] = "deviceCert"
      /\ CertFiles[4] = "clickme" /\ CertFiles[5] = "voice"
  BY DEF CertFiles
<1>2. \A i \in 1 .. 5 : i = 1 \/ i = 2 \/ i = 3 \/ i = 4 \/ i = 5 OBVIOUS
<1>3. CASE ~Missing("cloud")
  <2>1. CertQueue = CertFiles BY <1>3 DEF CertQueue
  <2>2. CertFiles # <<>> BY DEF CertFiles
  <2>3. \A i \in 1 .. 5 : CertFiles[i] \in CertSet /\ CertFiles[i] # "cloud"
    BY <1>1, <1>2 DEF CertSet
  <2>4. \A f \in CertSet : f # "cloud" => \E i \in 1 .. 5 : CertFiles[i] = f
    BY <1>1 DEF CertSet
  <2> QED BY <1>3, <2>1, <2>2, <2>3, <2>4, FixedQueues, FilesAre
<1>4. CASE Missing("cloud")
  <2> DEFINE q == Append(CertFiles, "cloud")
  <2>1. CertQueue = q BY <1>4 DEF CertQueue
  <2>2. "cloud" \in AllFiles BY DEF AllFiles
  <2>3. CertFiles \in Seq(AllFiles) /\ Len(CertFiles) = 5 BY FixedQueues
  <2>4. /\ q \in Seq(AllFiles) /\ Len(q) = 6 /\ DOMAIN q = 1 .. 6
        /\ q[6] = "cloud" /\ \A i \in 1 .. 5 : q[i] = CertFiles[i]
    <3>1. CertFiles \in Seq(AllFiles) BY <2>3
    <3>2. /\ q \in Seq(AllFiles) /\ Len(q) = Len(CertFiles) + 1
          /\ DOMAIN q = 1 .. Len(CertFiles) + 1
          /\ \A i \in 1 .. Len(CertFiles) : q[i] = CertFiles[i]
          /\ q[Len(CertFiles) + 1] = "cloud"
      BY ONLY <2>2, <3>1, AppendFacts, Zenon
    <3> HIDE DEF q
    <3> QED BY <2>3, <3>2
  <2>5. \A i \in 1 .. 6 : i \in 1 .. 5 \/ i = 6 OBVIOUS
  <2>6. \A i \in 1 .. 6 : q[i] \in CertSet /\ (q[i] = "cloud" => i = 6)
    BY <1>1, <1>2, <2>4, <2>5 DEF CertSet
  <2>7. \A f \in CertSet : \E i \in 1 .. 6 : q[i] = f
    <3>1. /\ q[1] = "cer" /\ q[2] = "rootCert" /\ q[3] = "deviceCert"
          /\ q[4] = "clickme" /\ q[5] = "voice" /\ q[6] = "cloud"
      BY <1>1, <2>4
    <3> HIDE DEF q
    <3> QED BY <3>1 DEF CertSet
  <2>8. q # <<>> BY <2>4
  <2> HIDE DEF q
  <2> QED BY <1>4, <2>1, <2>4, <2>6, <2>7, <2>8, FilesAre
<1> QED BY <1>3, <1>4

LEMMA QueueOfKeys ==
    /\ KeyFiles \in Seq(Files) /\ KeyFiles # <<>>
    /\ \A i \in DOMAIN KeyFiles : KeyFiles[i] \in {"slot0", "slot4", "certKeys"}
    /\ \A f \in {"slot0", "slot4", "certKeys"} : \E i \in DOMAIN KeyFiles : KeyFiles[i] = f
<1>1. KeyFiles[1] = "slot0" /\ KeyFiles[2] = "slot4" /\ KeyFiles[3] = "certKeys"
  BY DEF KeyFiles
<1>2. \A i \in 1 .. 3 : i = 1 \/ i = 2 \/ i = 3 OBVIOUS
<1>3. KeyFiles # <<>> BY DEF KeyFiles
<1>4. \A i \in 1 .. 3 : KeyFiles[i] \in {"slot0", "slot4", "certKeys"} BY <1>1, <1>2
<1>5. \A f \in {"slot0", "slot4", "certKeys"} : \E i \in 1 .. 3 : KeyFiles[i] = f BY <1>1
<1> QED BY <1>3, <1>4, <1>5, FixedQueues, FilesAre

-----------------------------------------------------------------------------
(* Control, the datastore and ERROR.txt.                                     *)

\* The queue is empty where no file is to be written.
LEMMA ControlStep ==
    ASSUME MsdTypeOK, Control, [MsdNext]_msdVars
    PROVE  Control'
<1> USE DEF MsdTypeOK, Control, storage, datastore, Touching, FromAtca, FromSerial, FromCerts,
       FromKeys, FromConfig
<1>1. CASE OpenFile BY <1>1 DEF OpenFile
<1>2. CASE WriteFile BY <1>2 DEF WriteFile
<1>3. CASE FileFails BY <1>3 DEF FileFails, Phases
<1>4. CASE ReadSerial BY <1>4 DEF ReadSerial, In
<1>5. CASE Mount BY <1>5 DEF Mount, MountsToFormat, MountsToUse, RemovesErrorFile, In
<1>6. CASE FormatBegins BY <1>6 DEF FormatBegins, In
<1>7. CASE FormatEnds BY <1>7 DEF FormatEnds
<1>8. CASE FormatFails BY <1>8 DEF FormatFails
<1>9. CASE VersionDone BY <1>9 DEF VersionDone, Done, Begins
<1>10. CASE AtcaInit BY <1>10 DEF AtcaInit, Done, Begins
<1>11. CASE AtcaFails BY <1>11 DEF AtcaFails, Done, Begins
<1>12. CASE SerialDone BY <1>12 DEF SerialDone, Done, Begins
<1>13. CASE CertsDone BY <1>13 DEF CertsDone, Done, Begins
<1>14. CASE KeysDone BY <1>14 DEF KeysDone, Done, Begins
<1>15. CASE ConfigDone BY <1>15 DEF ConfigDone, Done, Begins
<1>16. CASE ConfigValid BY <1>16 DEF ConfigValid, Done, Begins
<1>17. CASE ConfigInvalid BY <1>17 DEF ConfigInvalid, Done, Begins
<1>18. CASE ConfigNotOpened BY <1>18 DEF ConfigNotOpened, Done, Begins
<1>19. CASE CloudInvalid BY <1>19 DEF CloudInvalid, Done, Begins
<1>20. CASE CloudValid BY <1>20 DEF CloudValid, Done, Begins
<1>21. CASE CloudNotOpened BY <1>21 DEF CloudNotOpened, Done, Begins
<1>22. CASE WriteError BY <1>22 DEF WriteError, Done, Begins
<1>23. CASE ConnectUsb BY <1>23 DEF ConnectUsb, In
<1>24. CASE MsdPowerLoss BY <1>24 DEF MsdPowerLoss, MsdRestart
<1>25. CASE MsdCrash BY <1>25 DEF MsdCrash, Done, MsdRestart
<1>26. CASE UNCHANGED msdVars BY <1>26 DEF msdVars
<1> QED BY <1>1, <1>2, <1>3, <1>4, <1>5, <1>6, <1>7, <1>8, <1>9, <1>10, <1>11, <1>12, <1>13,
       <1>14, <1>15, <1>16, <1>17, <1>18, <1>19, <1>20, <1>21, <1>22, <1>23, <1>24, <1>25,
       <1>26 DEF MsdNext, MSD_APP_Tasks

\* The datastore is filled in the order of the functions.
LEMMA FilledStep ==
    ASSUME MsdTypeOK, Control, Filled, [MsdNext]_msdVars
    PROVE  Filled'
<1> USE DEF MsdTypeOK, Control, Filled, Attached, storage, datastore, Touching, FromAtca,
       FromSerial, FromCerts, FromKeys, FromConfig
<1>1. CASE OpenFile BY <1>1 DEF OpenFile
<1>2. CASE WriteFile BY <1>2 DEF WriteFile
<1>3. CASE FileFails BY <1>3 DEF FileFails, Phases
<1>4. CASE ReadSerial BY <1>4 DEF ReadSerial, In
<1>5. CASE Mount BY <1>5 DEF Mount, MountsToFormat, MountsToUse, RemovesErrorFile, In
<1>6. CASE FormatBegins BY <1>6 DEF FormatBegins, In
<1>7. CASE FormatEnds BY <1>7 DEF FormatEnds
<1>8. CASE FormatFails BY <1>8 DEF FormatFails
<1>9. CASE VersionDone BY <1>9 DEF VersionDone, Done, Begins
<1>10. CASE AtcaInit BY <1>10 DEF AtcaInit, Done, Begins
<1>11. CASE AtcaFails BY <1>11 DEF AtcaFails, Done, Begins
<1>12. CASE SerialDone BY <1>12 DEF SerialDone, Done, Begins
<1>13. CASE CertsDone BY <1>13 DEF CertsDone, Done, Begins
<1>14. CASE KeysDone BY <1>14 DEF KeysDone, Done, Begins
<1>15. CASE ConfigDone BY <1>15 DEF ConfigDone, Done, Begins
<1>16. CASE ConfigValid BY <1>16 DEF ConfigValid, Done, Begins
<1>17. CASE ConfigInvalid BY <1>17 DEF ConfigInvalid, Done, Begins
<1>18. CASE ConfigNotOpened BY <1>18 DEF ConfigNotOpened, Done, Begins
<1>19. CASE CloudInvalid BY <1>19 DEF CloudInvalid, Done, Begins
<1>20. CASE CloudValid BY <1>20 DEF CloudValid, Done, Begins
<1>21. CASE CloudNotOpened BY <1>21 DEF CloudNotOpened, Done, Begins
<1>22. CASE WriteError BY <1>22 DEF WriteError, Done, Begins
<1>23. CASE ConnectUsb BY <1>23 DEF ConnectUsb, In
<1>24. CASE MsdPowerLoss BY <1>24 DEF MsdPowerLoss, MsdRestart
<1>25. CASE MsdCrash BY <1>25 DEF MsdCrash, Done, MsdRestart
<1>26. CASE UNCHANGED msdVars BY <1>26 DEF msdVars
<1> QED BY <1>1, <1>2, <1>3, <1>4, <1>5, <1>6, <1>7, <1>8, <1>9, <1>10, <1>11, <1>12, <1>13,
       <1>14, <1>15, <1>16, <1>17, <1>18, <1>19, <1>20, <1>21, <1>22, <1>23, <1>24, <1>25,
       <1>26 DEF MsdNext, MSD_APP_Tasks

\* ERROR.txt is removed before anything is written, and written where something lacks.
LEMMA ErrorFileStep ==
    ASSUME MsdTypeOK, Control, Filled, ErrorFileFresh, [MsdNext]_msdVars
    PROVE  ErrorFileFresh'
<1> USE DEF MsdTypeOK, Control, Filled, ErrorFileFresh, Configured, Attached, storage,
       datastore, Touching, FromAtca, FromSerial, FromCerts, FromKeys, FromConfig
<1>1. CASE OpenFile BY <1>1 DEF OpenFile
<1>2. CASE WriteFile BY <1>2 DEF WriteFile
<1>3. CASE FileFails BY <1>3 DEF FileFails, Phases
<1>4. CASE ReadSerial BY <1>4 DEF ReadSerial, In
<1>5. CASE Mount BY <1>5 DEF Mount, MountsToFormat, MountsToUse, RemovesErrorFile, In
<1>6. CASE FormatBegins BY <1>6 DEF FormatBegins, In
<1>7. CASE FormatEnds BY <1>7 DEF FormatEnds
<1>8. CASE FormatFails BY <1>8 DEF FormatFails
<1>9. CASE VersionDone BY <1>9 DEF VersionDone, Done, Begins
<1>10. CASE AtcaInit BY <1>10 DEF AtcaInit, Done, Begins
<1>11. CASE AtcaFails BY <1>11 DEF AtcaFails, Done, Begins
<1>12. CASE SerialDone BY <1>12 DEF SerialDone, Done, Begins
<1>13. CASE CertsDone BY <1>13 DEF CertsDone, Done, Begins
<1>14. CASE KeysDone BY <1>14 DEF KeysDone, Done, Begins
<1>15. CASE ConfigDone BY <1>15 DEF ConfigDone, Done, Begins
<1>16. CASE ConfigValid BY <1>16 DEF ConfigValid, Done, Begins
<1>17. CASE ConfigInvalid BY <1>17 DEF ConfigInvalid, Done, Begins
<1>18. CASE ConfigNotOpened BY <1>18 DEF ConfigNotOpened, Done, Begins
<1>19. CASE CloudInvalid BY <1>19 DEF CloudInvalid, Done, Begins
<1>20. CASE CloudValid BY <1>20 DEF CloudValid, Done, Begins
<1>21. CASE CloudNotOpened BY <1>21 DEF CloudNotOpened, Done, Begins
<1>22. CASE WriteError
  <2>1. phase = "Error" /\ phase' = "Idle" /\ msd' = "CONNECT_USB"
    BY <1>22 DEF WriteError, Done, Begins
  <2>2. ~mqttConfigValid' BY <1>22, <2>1 DEF WriteError
  <2>3. silent' = (silent \/ errFile' # "New") BY <1>22 DEF WriteError
  <2>4. errFile' = "New" \/ silent' BY <2>3
  <2> QED BY <2>1, <2>2, <2>4
<1>23. CASE ConnectUsb BY <1>23 DEF ConnectUsb, In
<1>24. CASE MsdPowerLoss BY <1>24 DEF MsdPowerLoss, MsdRestart
<1>25. CASE MsdCrash BY <1>25 DEF MsdCrash, Done, MsdRestart
<1>26. CASE UNCHANGED msdVars BY <1>26 DEF msdVars
<1> QED BY <1>1, <1>2, <1>3, <1>4, <1>5, <1>6, <1>7, <1>8, <1>9, <1>10, <1>11, <1>12, <1>13,
       <1>14, <1>15, <1>16, <1>17, <1>18, <1>19, <1>20, <1>21, <1>22, <1>23, <1>24, <1>25,
       <1>26 DEF MsdNext, MSD_APP_Tasks

-----------------------------------------------------------------------------
(* Types and the queue.                                                      *)

LEMMA TailFacts ==
    ASSUME NEW S, NEW s \in Seq(S), s # <<>>
    PROVE  /\ Tail(s) \in Seq(S) /\ Head(s) \in S /\ Head(s) = s[1]
           /\ Len(s) \in Nat \ {0} /\ DOMAIN s = 1 .. Len(s)
           /\ Len(Tail(s)) = Len(s) - 1 /\ DOMAIN Tail(s) = 1 .. Len(s) - 1
           /\ \A i \in 1 .. Len(s) - 1 : Tail(s)[i] = s[i + 1]
OBVIOUS

LEMMA FilesHave == {"version", "serial", "cloud", "config", "cer", "voice"} \subseteq Files
BY FilesAre DEF AllFiles

\* What is in the queue is a file.
LEMMA QueueStep ==
    ASSUME MsdTypeOK, Control, [MsdNext]_msdVars
    PROVE  queue' \in Seq(Files)
<1> USE FilesHave, ShortQueue, QueueOfCerts, QueueOfKeys DEF MsdTypeOK, Control, storage,
       datastore, Begins
<1>1. CASE OpenFile BY <1>1 DEF OpenFile
<1>2. CASE WriteFile BY <1>2, TailFacts DEF WriteFile
<1>3. CASE FileFails BY <1>3 DEF FileFails
<1>4. CASE ReadSerial BY <1>4 DEF ReadSerial, In
<1>5. CASE Mount BY <1>5 DEF Mount, MountsToFormat, MountsToUse, RemovesErrorFile, In
<1>6. CASE FormatBegins BY <1>6 DEF FormatBegins, In
<1>7. CASE FormatEnds BY <1>7 DEF FormatEnds
<1>8. CASE FormatFails BY <1>8 DEF FormatFails
<1>9. CASE VersionDone BY <1>9 DEF VersionDone, Done, Begins
<1>10. CASE AtcaInit BY <1>10 DEF AtcaInit, Done, Begins
<1>11. CASE AtcaFails BY <1>11 DEF AtcaFails, Done, Begins
<1>12. CASE SerialDone BY <1>12 DEF SerialDone, Done, Begins
<1>13. CASE CertsDone BY <1>13 DEF CertsDone, Done, Begins
<1>14. CASE KeysDone BY <1>14 DEF KeysDone, Done, Begins
<1>15. CASE ConfigDone BY <1>15 DEF ConfigDone, Done, Begins
<1>16. CASE ConfigValid BY <1>16 DEF ConfigValid, Done, Begins
<1>17. CASE ConfigInvalid BY <1>17 DEF ConfigInvalid, Done, Begins
<1>18. CASE ConfigNotOpened BY <1>18 DEF ConfigNotOpened, Done, Begins
<1>19. CASE CloudInvalid BY <1>19 DEF CloudInvalid, Done, Begins
<1>20. CASE CloudValid BY <1>20 DEF CloudValid, Done, Begins
<1>21. CASE CloudNotOpened BY <1>21 DEF CloudNotOpened, Done, Begins
<1>22. CASE WriteError BY <1>22 DEF WriteError, Done, Begins
<1>23. CASE ConnectUsb BY <1>23 DEF ConnectUsb, In
<1>24. CASE MsdPowerLoss BY <1>24 DEF MsdPowerLoss, MsdRestart
<1>25. CASE MsdCrash BY <1>25 DEF MsdCrash, Done, MsdRestart
<1>26. CASE UNCHANGED msdVars BY <1>26 DEF msdVars
<1> QED BY <1>1, <1>2, <1>3, <1>4, <1>5, <1>6, <1>7, <1>8, <1>9, <1>10, <1>11, <1>12, <1>13,
       <1>14, <1>15, <1>16, <1>17, <1>18, <1>19, <1>20, <1>21, <1>22, <1>23, <1>24, <1>25,
       <1>26 DEF MsdNext, MSD_APP_Tasks

\* The drive holds a content for each file.
LEMMA DriveStep ==
    ASSUME MsdTypeOK, Control, [MsdNext]_msdVars
    PROVE  drive' \in [Files -> Contents]
<1> USE DEF MsdTypeOK, Control, storage, datastore, Contents
<1>1. CASE OpenFile BY <1>1, TailFacts DEF OpenFile
<1>2. CASE WriteFile BY <1>2, TailFacts DEF WriteFile
<1>3. CASE FileFails BY <1>3 DEF FileFails
<1>4. CASE ReadSerial BY <1>4 DEF ReadSerial, In
<1>5. CASE Mount BY <1>5 DEF Mount, MountsToFormat, MountsToUse, RemovesErrorFile, In
<1>6. CASE FormatBegins BY <1>6 DEF FormatBegins, In
<1>7. CASE FormatEnds BY <1>7 DEF FormatEnds
<1>8. CASE FormatFails BY <1>8 DEF FormatFails
<1>9. CASE VersionDone BY <1>9 DEF VersionDone, Done, Begins
<1>10. CASE AtcaInit BY <1>10 DEF AtcaInit, Done, Begins
<1>11. CASE AtcaFails BY <1>11 DEF AtcaFails, Done, Begins
<1>12. CASE SerialDone BY <1>12 DEF SerialDone, Done, Begins
<1>13. CASE CertsDone BY <1>13 DEF CertsDone, Done, Begins
<1>14. CASE KeysDone BY <1>14 DEF KeysDone, Done, Begins
<1>15. CASE ConfigDone BY <1>15 DEF ConfigDone, Done, Begins
<1>16. CASE ConfigValid BY <1>16 DEF ConfigValid, Done, Begins
<1>17. CASE ConfigInvalid BY <1>17 DEF ConfigInvalid, Done, Begins
<1>18. CASE ConfigNotOpened BY <1>18 DEF ConfigNotOpened, Done, Begins
<1>19. CASE CloudInvalid BY <1>19 DEF CloudInvalid, Done, Begins
<1>20. CASE CloudValid BY <1>20 DEF CloudValid, Done, Begins
<1>21. CASE CloudNotOpened BY <1>21 DEF CloudNotOpened, Done, Begins
<1>22. CASE WriteError BY <1>22 DEF WriteError, Done, Begins
<1>23. CASE ConnectUsb BY <1>23 DEF ConnectUsb, In
<1>24. CASE MsdPowerLoss BY <1>24 DEF MsdPowerLoss, MsdRestart
<1>25. CASE MsdCrash BY <1>25 DEF MsdCrash, Done, MsdRestart
<1>26. CASE UNCHANGED msdVars BY <1>26 DEF msdVars
<1> QED BY <1>1, <1>2, <1>3, <1>4, <1>5, <1>6, <1>7, <1>8, <1>9, <1>10, <1>11, <1>12, <1>13,
       <1>14, <1>15, <1>16, <1>17, <1>18, <1>19, <1>20, <1>21, <1>22, <1>23, <1>24, <1>25,
       <1>26 DEF MsdNext, MSD_APP_Tasks

\* The other variables but losses.
LEMMA FieldsStep ==
    ASSUME MsdTypeOK, [MsdNext]_msdVars
    PROVE (/\ msd \in States /\ phase \in Phases /\ open \in BOOLEAN
           /\ formatted \in BOOLEAN /\ errFile \in {"None", "New", "Old"} /\ bootSwitch \in BOOLEAN
           /\ serialNumValid \in BOOLEAN /\ wifiCtrlValid \in BOOLEAN /\ mqttConfigValid \in
                  BOOLEAN
           /\ wifiCtrl \in {"None", "Default", "User", "Rejected"}
           /\ silent \in BOOLEAN)'
<1> USE DEF MsdTypeOK, storage, datastore, States, Phases
<1>1. CASE OpenFile BY <1>1 DEF OpenFile
<1>2. CASE WriteFile
  <2>1. /\ open' = FALSE
        /\ UNCHANGED <<msd, phase, formatted, errFile, bootSwitch, datastore, silent>>
    BY <1>2 DEF WriteFile
  <2>2. open' \in BOOLEAN BY <2>1
  <2> QED BY <2>1, <2>2
<1>3. CASE FileFails
  <2>1. /\ open' = FALSE /\ phase' \in {"Atca", "Error"}
        /\ silent' = (silent \/ phase = "Version")
    BY <1>3 DEF FileFails
  <2>2. silent' \in BOOLEAN /\ open' \in BOOLEAN BY <2>1
  <2>3. UNCHANGED <<msd, formatted, errFile, bootSwitch, datastore>>
    BY <1>3 DEF FileFails
  <2> QED BY <2>1, <2>2, <2>3
<1>4. CASE ReadSerial BY <1>4 DEF ReadSerial, In
<1>5. CASE Mount BY <1>5 DEF Mount, MountsToFormat, MountsToUse, RemovesErrorFile, In
<1>6. CASE FormatBegins BY <1>6 DEF FormatBegins, In
<1>7. CASE FormatEnds BY <1>7 DEF FormatEnds
<1>8. CASE FormatFails BY <1>8 DEF FormatFails
<1>9. CASE VersionDone BY <1>9 DEF VersionDone, Done, Begins
<1>10. CASE AtcaInit BY <1>10 DEF AtcaInit, Done, Begins
<1>11. CASE AtcaFails BY <1>11 DEF AtcaFails, Done, Begins
<1>12. CASE SerialDone BY <1>12 DEF SerialDone, Done, Begins
<1>13. CASE CertsDone BY <1>13 DEF CertsDone, Done, Begins
<1>14. CASE KeysDone BY <1>14 DEF KeysDone, Done, Begins
<1>15. CASE ConfigDone BY <1>15 DEF ConfigDone, Done, Begins
<1>16. CASE ConfigValid BY <1>16 DEF ConfigValid, Done, Begins
<1>17. CASE ConfigInvalid BY <1>17 DEF ConfigInvalid, Done, Begins
<1>18. CASE ConfigNotOpened BY <1>18 DEF ConfigNotOpened, Done, Begins
<1>19. CASE CloudInvalid BY <1>19 DEF CloudInvalid, Done, Begins
<1>20. CASE CloudValid BY <1>20 DEF CloudValid, Done, Begins
<1>21. CASE CloudNotOpened BY <1>21 DEF CloudNotOpened, Done, Begins
<1>22. CASE WriteError BY <1>22 DEF WriteError, Done, Begins
<1>23. CASE ConnectUsb BY <1>23 DEF ConnectUsb, In
<1>24. CASE MsdPowerLoss BY <1>24 DEF MsdPowerLoss, MsdRestart
<1>25. CASE MsdCrash BY <1>25 DEF MsdCrash, Done, MsdRestart
<1>26. CASE UNCHANGED msdVars BY <1>26 DEF msdVars
<1> QED BY <1>1, <1>2, <1>3, <1>4, <1>5, <1>6, <1>7, <1>8, <1>9, <1>10, <1>11, <1>12, <1>13,
       <1>14, <1>15, <1>16, <1>17, <1>18, <1>19, <1>20, <1>21, <1>22, <1>23, <1>24, <1>25,
       <1>26 DEF MsdNext, MSD_APP_Tasks

LEMMA LossesStep ==
    ASSUME MsdTypeOK, [MsdNext]_msdVars
    PROVE  losses' \in 0 .. MaxLosses
<1>1. losses' = losses \/ (losses > 0 /\ losses' = losses - 1)
  <2> USE DEF storage, datastore
  <2>1. CASE OpenFile BY <2>1 DEF OpenFile
  <2>2. CASE WriteFile BY <2>2 DEF WriteFile
  <2>3. CASE FileFails BY <2>3 DEF FileFails
  <2>4. CASE ReadSerial BY <2>4 DEF ReadSerial
  <2>5. CASE Mount BY <2>5 DEF Mount, MountsToFormat, MountsToUse
  <2>6. CASE FormatBegins BY <2>6 DEF FormatBegins
  <2>7. CASE FormatEnds BY <2>7 DEF FormatEnds
  <2>8. CASE FormatFails BY <2>8 DEF FormatFails
  <2>9. CASE VersionDone BY <2>9 DEF VersionDone
  <2>10. CASE AtcaInit BY <2>10 DEF AtcaInit
  <2>11. CASE AtcaFails BY <2>11 DEF AtcaFails
  <2>12. CASE SerialDone BY <2>12 DEF SerialDone
  <2>13. CASE CertsDone BY <2>13 DEF CertsDone
  <2>14. CASE KeysDone BY <2>14 DEF KeysDone
  <2>15. CASE ConfigDone BY <2>15 DEF ConfigDone
  <2>16. CASE ConfigValid BY <2>16 DEF ConfigValid
  <2>17. CASE ConfigInvalid BY <2>17 DEF ConfigInvalid
  <2>18. CASE ConfigNotOpened BY <2>18 DEF ConfigNotOpened
  <2>19. CASE CloudInvalid BY <2>19 DEF CloudInvalid
  <2>20. CASE CloudValid BY <2>20 DEF CloudValid
  <2>21. CASE CloudNotOpened BY <2>21 DEF CloudNotOpened
  <2>22. CASE WriteError BY <2>22 DEF WriteError
  <2>23. CASE ConnectUsb BY <2>23 DEF ConnectUsb
  <2>24. CASE MsdPowerLoss BY <2>24 DEF MsdPowerLoss
  <2>25. CASE MsdCrash BY <2>25 DEF MsdCrash
  <2>26. CASE UNCHANGED msdVars BY <2>26 DEF msdVars
  <2> QED BY <2>1, <2>2, <2>3, <2>4, <2>5, <2>6, <2>7, <2>8, <2>9, <2>10, <2>11, <2>12, <2>13,
         <2>14, <2>15, <2>16, <2>17, <2>18, <2>19, <2>20, <2>21, <2>22, <2>23, <2>24, <2>25,
         <2>26 DEF MsdNext, MSD_APP_Tasks
<1> QED BY <1>1, LossesAssumption DEF MsdTypeOK

LEMMA MsdTypeStep ==
    ASSUME MsdTypeOK, Control, [MsdNext]_msdVars
    PROVE  MsdTypeOK'
<1>1. queue' \in Seq(Files) BY QueueStep
<1>2. drive' \in [Files -> Contents] BY DriveStep
<1>3. losses' \in 0 .. MaxLosses BY LossesStep
<1> QED BY <1>1, <1>2, <1>3, FieldsStep DEF MsdTypeOK

-----------------------------------------------------------------------------
(* What is written and what is kept.                                         *)

\* Of the user's files only those that are missing get into the queue, as its last.
LEMMA SparesStep ==
    ASSUME MsdTypeOK, Control, QueueSparesUser, [MsdNext]_msdVars
    PROVE  QueueSparesUser'
<1> USE ShortQueue DEF MsdTypeOK, Control, QueueSparesUser, UserFiles, storage, datastore,
       Missing
<1>1. CASE OpenFile
  <2>1. drive' = [drive EXCEPT ![queue[1]] = "Empty"] /\ queue' = queue /\ phase' = phase
    BY <1>1, TailFacts DEF OpenFile
  <2>2. Len(queue) \in Nat \ {0} /\ DOMAIN queue = 1 .. Len(queue) /\ ~open /\ open'
    BY <1>1, TailFacts DEF OpenFile
  <2>3. SUFFICES ASSUME NEW i \in DOMAIN queue, queue[i] \in UserFiles
                 PROVE  /\ i = Len(queue)
                        /\ drive'[queue[i]] = "Missing" \/ i = 1
                        /\ queue[i] = "cloud" => phase = "Certs"
    BY <2>1, <2>2
  <2>4. i = Len(queue) /\ drive[queue[i]] = "Missing" BY <2>2, <2>3
  <2>5. CASE queue[i] = queue[1] BY <2>2, <2>3, <2>4, <2>5
  <2>6. CASE queue[i] # queue[1] BY <2>1, <2>2, <2>3, <2>4, <2>6, FilesHave
  <2> QED BY <2>5, <2>6
<1>2. CASE WriteFile
  <2>1. /\ drive' = [drive EXCEPT ![queue[1]] = "Default"] /\ queue' = Tail(queue)
        /\ phase' = phase
    BY <1>2, TailFacts DEF WriteFile
  <2>2. /\ Len(queue) \in Nat \ {0} /\ DOMAIN queue = 1 .. Len(queue)
        /\ Len(queue') = Len(queue) - 1 /\ DOMAIN queue' = 1 .. Len(queue) - 1
        /\ \A i \in 1 .. Len(queue) - 1 : queue'[i] = queue[i + 1]
    BY <1>2, TailFacts DEF WriteFile
  <2>3. SUFFICES ASSUME NEW i \in DOMAIN queue', queue'[i] \in UserFiles
                 PROVE  /\ i = Len(queue')
                        /\ drive'[queue'[i]] = "Missing"
                        /\ queue'[i] = "cloud" => phase = "Certs"
    BY <2>1, <2>2
  <2>4. i + 1 \in DOMAIN queue /\ i + 1 # 1 /\ queue[i + 1] = queue'[i] BY <2>2, <2>3
  <2>5. /\ i + 1 = Len(queue) /\ drive[queue[i + 1]] = "Missing"
        /\ queue[i + 1] = "cloud" => phase = "Certs"
    BY <2>3, <2>4
  <2>6. queue[1] # queue[i + 1] BY <2>2, <2>3, <2>4, <2>5
  <2> QED BY <2>1, <2>2, <2>3, <2>4, <2>5, <2>6, FilesHave
<1>3. CASE FileFails BY <1>3 DEF FileFails
<1>4. CASE ReadSerial BY <1>4 DEF ReadSerial, In
<1>5. CASE Mount BY <1>5 DEF Mount, MountsToFormat, MountsToUse, RemovesErrorFile, In
<1>6. CASE FormatBegins BY <1>6 DEF FormatBegins, In
<1>7. CASE FormatEnds BY <1>7 DEF FormatEnds
<1>8. CASE FormatFails BY <1>8 DEF FormatFails
<1>9. CASE VersionDone BY <1>9 DEF VersionDone, Done, Begins
<1>10. CASE AtcaInit BY <1>10 DEF AtcaInit, Done, Begins
<1>11. CASE AtcaFails BY <1>11 DEF AtcaFails, Done, Begins
<1>12. CASE SerialDone
  <2>1. phase' = "Certs" /\ drive' = drive /\ open' = open /\ ~open
    BY <1>12 DEF SerialDone, Done, Begins
  <2>2. CASE queue' = <<>> BY <2>2
  <2>3. CASE queue' = CertQueue BY <2>1, <2>3, QueueOfCerts DEF CertSet
  <2> QED BY <1>12, <2>2, <2>3 DEF SerialDone, Done, Begins
<1>13. CASE CertsDone BY <1>13, QueueOfKeys DEF CertsDone, Done, Begins
<1>14. CASE KeysDone BY <1>14 DEF KeysDone, Done, Begins
<1>15. CASE ConfigDone BY <1>15 DEF ConfigDone, Done, Begins
<1>16. CASE ConfigValid BY <1>16 DEF ConfigValid, Done, Begins
<1>17. CASE ConfigInvalid BY <1>17 DEF ConfigInvalid, Done, Begins
<1>18. CASE ConfigNotOpened BY <1>18 DEF ConfigNotOpened, Done, Begins
<1>19. CASE CloudInvalid BY <1>19 DEF CloudInvalid, Done, Begins
<1>20. CASE CloudValid BY <1>20 DEF CloudValid, Done, Begins
<1>21. CASE CloudNotOpened BY <1>21 DEF CloudNotOpened, Done, Begins
<1>22. CASE WriteError BY <1>22 DEF WriteError, Done, Begins
<1>23. CASE ConnectUsb BY <1>23 DEF ConnectUsb, In
<1>24. CASE MsdPowerLoss BY <1>24 DEF MsdPowerLoss, MsdRestart
<1>25. CASE MsdCrash BY <1>25 DEF MsdCrash, Done, MsdRestart
<1>26. CASE UNCHANGED msdVars BY <1>26 DEF msdVars
<1> QED BY <1>1, <1>2, <1>3, <1>4, <1>5, <1>6, <1>7, <1>8, <1>9, <1>10, <1>11, <1>12, <1>13,
       <1>14, <1>15, <1>16, <1>17, <1>18, <1>19, <1>20, <1>21, <1>22, <1>23, <1>24, <1>25,
       <1>26 DEF MsdNext, MSD_APP_Tasks

-----------------------------------------------------------------------------
(* Nothing is missing.                                                       *)

\* A file that is missing stays in the queue until it is written.
LEMMA WrittenKept ==
    ASSUME MsdTypeOK, OpenFile \/ (WriteFile /\ queue # <<>>),
           NEW files \in SUBSET Files, Written(files)
    PROVE  Written(files)'
<1> SUFFICES ASSUME NEW f \in files, drive'[f] = "Missing"
             PROVE  \E i \in DOMAIN queue' : queue'[i] = f
  BY DEF Written, Missing, Queued
<1> USE DEF MsdTypeOK
<1>1. CASE OpenFile
  <2>1. queue' = queue /\ Head(queue) \in Files /\ drive' = [drive EXCEPT ![Head(queue)] =
         "Empty"]
    BY <1>1, TailFacts DEF OpenFile
  <2>2. drive[f] = "Missing" BY <2>1
  <2> QED BY <2>1, <2>2 DEF Written, Missing, Queued
<1>2. CASE WriteFile /\ queue # <<>>
  <2>1. /\ queue' = Tail(queue) /\ queue[1] \in Files
        /\ drive' = [drive EXCEPT ![queue[1]] = "Default"]
    BY <1>2, TailFacts DEF WriteFile
  <2>2. /\ Len(queue) \in Nat \ {0} /\ DOMAIN queue = 1 .. Len(queue)
        /\ DOMAIN queue' = 1 .. Len(queue) - 1
        /\ \A i \in 1 .. Len(queue) - 1 : queue'[i] = queue[i + 1]
    BY <1>2, <2>1, TailFacts
  <2>3. drive[f] = "Missing" /\ f # queue[1] BY <2>1
  <2>4. PICK i \in DOMAIN queue : queue[i] = f BY <2>3 DEF Written, Missing, Queued
  <2>5. i # 1 BY <2>3, <2>4
  <2>6. i - 1 \in DOMAIN queue' /\ queue'[i - 1] = queue[i] BY <2>2, <2>4, <2>5
  <2> QED BY <2>4, <2>6
<1> QED BY <1>1, <1>2

LEMMA NothingQueued ==
    ASSUME NEW files, queue = <<>>, Written(files)
    PROVE  \A f \in files : ~Missing(f)
BY DEF Written, Queued

LEMMA FileSets ==
    /\ {"version"} \subseteq Files /\ {"serial"} \subseteq Files /\ {"config"} \subseteq Files
    /\ CertSet \subseteq Files /\ {"slot0", "slot4"} \subseteq Files
BY FilesAre DEF AllFiles, CertSet

\* The file with the version of the firmware.
LEMMA VersionStep ==
    ASSUME MsdTypeOK, Control, Filled, Present, [MsdNext]_msdVars
    PROVE  ((phase = "Version" \/ (Reached(FromAtca) /\ ~silent)) => Written({"version"}))'
<1> USE DEF Present, Control, Filled, Attached, Configured, Reached, Written, Queued, Missing,
       storage, datastore, Touching, FromAtca, FromSerial, FromCerts, FromKeys, FromConfig
<1>1. CASE OpenFile
  <2> HIDE DEF Written, Queued
  <2>1. WriteFile => queue # <<>> BY DEF WriteFile
  <2>2. ((phase = "Version" \/ (Reached(FromAtca) /\ ~silent)))' => Written({"version"}) BY
         <1>1 DEF OpenFile, Present
  <2> QED BY <1>1, <2>1, <2>2, WrittenKept, FileSets DEF OpenFile
<1>2. CASE WriteFile
  <2> HIDE DEF Written, Queued
  <2>1. WriteFile => queue # <<>> BY DEF WriteFile
  <2>2. ((phase = "Version" \/ (Reached(FromAtca) /\ ~silent)))' => Written({"version"}) BY
         <1>2 DEF WriteFile, Present
  <2> QED BY <1>2, <2>1, <2>2, WrittenKept, FileSets DEF WriteFile
<1>3. CASE FileFails
  <2>1. queue # <<>> /\ phase \in Phases BY <1>3 DEF FileFails, MsdTypeOK
  <2> QED BY <1>3, <2>1 DEF FileFails, Phases
<1>4. CASE ReadSerial BY <1>4 DEF ReadSerial, In
<1>5. CASE Mount BY <1>5 DEF Mount, MountsToFormat, MountsToUse, RemovesErrorFile, In
<1>6. CASE FormatBegins BY <1>6 DEF FormatBegins, In
<1>7. CASE FormatEnds BY <1>7 DEF FormatEnds
<1>8. CASE FormatFails BY <1>8 DEF FormatFails
<1>9. CASE VersionDone BY <1>9 DEF VersionDone, Done, Begins
<1>10. CASE AtcaInit BY <1>10 DEF AtcaInit, Done, Begins
<1>11. CASE AtcaFails BY <1>11 DEF AtcaFails, Done, Begins
<1>12. CASE SerialDone BY <1>12 DEF SerialDone, Done, Begins
<1>13. CASE CertsDone BY <1>13 DEF CertsDone, Done, Begins
<1>14. CASE KeysDone BY <1>14 DEF KeysDone, Done, Begins
<1>15. CASE ConfigDone BY <1>15 DEF ConfigDone, Done, Begins
<1>16. CASE ConfigValid BY <1>16 DEF ConfigValid, Done, Begins
<1>17. CASE ConfigInvalid BY <1>17 DEF ConfigInvalid, Done, Begins
<1>18. CASE ConfigNotOpened BY <1>18 DEF ConfigNotOpened, Done, Begins
<1>19. CASE CloudInvalid BY <1>19 DEF CloudInvalid, Done, Begins
<1>20. CASE CloudValid BY <1>20 DEF CloudValid, Done, Begins
<1>21. CASE CloudNotOpened BY <1>21 DEF CloudNotOpened, Done, Begins
<1>22. CASE WriteError BY <1>22 DEF WriteError, Done, Begins
<1>23. CASE ConnectUsb BY <1>23 DEF ConnectUsb, In
<1>24. CASE MsdPowerLoss BY <1>24 DEF MsdPowerLoss, MsdRestart
<1>25. CASE MsdCrash BY <1>25 DEF MsdCrash, Done, MsdRestart
<1>26. CASE UNCHANGED msdVars BY <1>26 DEF msdVars
<1> QED BY <1>1, <1>2, <1>3, <1>4, <1>5, <1>6, <1>7, <1>8, <1>9, <1>10, <1>11, <1>12, <1>13,
       <1>14, <1>15, <1>16, <1>17, <1>18, <1>19, <1>20, <1>21, <1>22, <1>23, <1>24, <1>25,
       <1>26 DEF MsdNext, MSD_APP_Tasks

\* The file with the serial number.
LEMMA SerialStep ==
    ASSUME MsdTypeOK, Control, Filled, Present, [MsdNext]_msdVars
    PROVE  (serialNumValid /\ Reached(FromSerial) => Written({"serial"}))'
<1> USE DEF Present, Control, Filled, Attached, Configured, Reached, Written, Queued, Missing,
       storage, datastore, Touching, FromAtca, FromSerial, FromCerts, FromKeys, FromConfig
<1>1. CASE OpenFile
  <2> HIDE DEF Written, Queued
  <2>1. WriteFile => queue # <<>> BY DEF WriteFile
  <2>2. (serialNumValid /\ Reached(FromSerial))' => Written({"serial"}) BY <1>1 DEF OpenFile,
         Present
  <2> QED BY <1>1, <2>1, <2>2, WrittenKept, FileSets DEF OpenFile
<1>2. CASE WriteFile
  <2> HIDE DEF Written, Queued
  <2>1. WriteFile => queue # <<>> BY DEF WriteFile
  <2>2. (serialNumValid /\ Reached(FromSerial))' => Written({"serial"}) BY <1>2 DEF WriteFile,
         Present
  <2> QED BY <1>2, <2>1, <2>2, WrittenKept, FileSets DEF WriteFile
<1>3. CASE FileFails
  <2>1. queue # <<>> /\ phase \in Phases BY <1>3 DEF FileFails, MsdTypeOK
  <2> QED BY <1>3, <2>1 DEF FileFails, Phases
<1>4. CASE ReadSerial BY <1>4 DEF ReadSerial, In
<1>5. CASE Mount BY <1>5 DEF Mount, MountsToFormat, MountsToUse, RemovesErrorFile, In
<1>6. CASE FormatBegins BY <1>6 DEF FormatBegins, In
<1>7. CASE FormatEnds BY <1>7 DEF FormatEnds
<1>8. CASE FormatFails BY <1>8 DEF FormatFails
<1>9. CASE VersionDone BY <1>9 DEF VersionDone, Done, Begins
<1>10. CASE AtcaInit BY <1>10 DEF AtcaInit, Done, Begins
<1>11. CASE AtcaFails BY <1>11 DEF AtcaFails, Done, Begins
<1>12. CASE SerialDone BY <1>12 DEF SerialDone, Done, Begins
<1>13. CASE CertsDone BY <1>13 DEF CertsDone, Done, Begins
<1>14. CASE KeysDone BY <1>14 DEF KeysDone, Done, Begins
<1>15. CASE ConfigDone BY <1>15 DEF ConfigDone, Done, Begins
<1>16. CASE ConfigValid BY <1>16 DEF ConfigValid, Done, Begins
<1>17. CASE ConfigInvalid BY <1>17 DEF ConfigInvalid, Done, Begins
<1>18. CASE ConfigNotOpened BY <1>18 DEF ConfigNotOpened, Done, Begins
<1>19. CASE CloudInvalid BY <1>19 DEF CloudInvalid, Done, Begins
<1>20. CASE CloudValid BY <1>20 DEF CloudValid, Done, Begins
<1>21. CASE CloudNotOpened BY <1>21 DEF CloudNotOpened, Done, Begins
<1>22. CASE WriteError BY <1>22 DEF WriteError, Done, Begins
<1>23. CASE ConnectUsb BY <1>23 DEF ConnectUsb, In
<1>24. CASE MsdPowerLoss BY <1>24 DEF MsdPowerLoss, MsdRestart
<1>25. CASE MsdCrash BY <1>25 DEF MsdCrash, Done, MsdRestart
<1>26. CASE UNCHANGED msdVars BY <1>26 DEF msdVars
<1> QED BY <1>1, <1>2, <1>3, <1>4, <1>5, <1>6, <1>7, <1>8, <1>9, <1>10, <1>11, <1>12, <1>13,
       <1>14, <1>15, <1>16, <1>17, <1>18, <1>19, <1>20, <1>21, <1>22, <1>23, <1>24, <1>25,
       <1>26 DEF MsdNext, MSD_APP_Tasks

\* The certificates and cloud.json.
LEMMA CertsStep ==
    ASSUME MsdTypeOK, Control, Filled, Present, [MsdNext]_msdVars
    PROVE  (serialNumValid /\ Reached(FromCerts) => Written(CertSet))'
<1> USE DEF Present, Control, Filled, Attached, Configured, Reached, Written, Queued, Missing,
       storage, datastore, Touching, FromAtca, FromSerial, FromCerts, FromKeys, FromConfig
<1>1. CASE OpenFile
  <2> HIDE DEF Written, Queued
  <2>1. WriteFile => queue # <<>> BY DEF WriteFile
  <2>2. (serialNumValid /\ Reached(FromCerts))' => Written(CertSet) BY <1>1 DEF OpenFile,
         Present
  <2> QED BY <1>1, <2>1, <2>2, WrittenKept, FileSets DEF OpenFile
<1>2. CASE WriteFile
  <2> HIDE DEF Written, Queued
  <2>1. WriteFile => queue # <<>> BY DEF WriteFile
  <2>2. (serialNumValid /\ Reached(FromCerts))' => Written(CertSet) BY <1>2 DEF WriteFile,
         Present
  <2> QED BY <1>2, <2>1, <2>2, WrittenKept, FileSets DEF WriteFile
<1>3. CASE FileFails
  <2>1. queue # <<>> /\ phase \in Phases BY <1>3 DEF FileFails, MsdTypeOK
  <2> QED BY <1>3, <2>1 DEF FileFails, Phases
<1>4. CASE ReadSerial BY <1>4 DEF ReadSerial, In
<1>5. CASE Mount BY <1>5 DEF Mount, MountsToFormat, MountsToUse, RemovesErrorFile, In
<1>6. CASE FormatBegins BY <1>6 DEF FormatBegins, In
<1>7. CASE FormatEnds BY <1>7 DEF FormatEnds
<1>8. CASE FormatFails BY <1>8 DEF FormatFails
<1>9. CASE VersionDone BY <1>9 DEF VersionDone, Done, Begins
<1>10. CASE AtcaInit BY <1>10 DEF AtcaInit, Done, Begins
<1>11. CASE AtcaFails BY <1>11 DEF AtcaFails, Done, Begins
<1>12. CASE SerialDone
  <2>1. CASE CertsNeeded
    <3>1. drive' = drive /\ queue' = CertQueue BY <1>12, <2>1 DEF SerialDone, Done, Begins
    <3> QED BY <3>1, QueueOfCerts
  <2>2. CASE ~CertsNeeded
    <3>1. /\ drive' = drive
          /\ ~Missing("deviceCert") /\ ~Missing("rootCert") /\ ~Missing("clickme")
          /\ ~Missing("cloud")
      BY <1>12, <2>2 DEF SerialDone, Done, Begins, CertsNeeded
    <3> QED BY <3>1 DEF CertSet
  <2> QED BY <2>1, <2>2
<1>13. CASE CertsDone BY <1>13 DEF CertsDone, Done, Begins
<1>14. CASE KeysDone BY <1>14 DEF KeysDone, Done, Begins
<1>15. CASE ConfigDone BY <1>15 DEF ConfigDone, Done, Begins
<1>16. CASE ConfigValid BY <1>16 DEF ConfigValid, Done, Begins
<1>17. CASE ConfigInvalid BY <1>17 DEF ConfigInvalid, Done, Begins
<1>18. CASE ConfigNotOpened BY <1>18 DEF ConfigNotOpened, Done, Begins
<1>19. CASE CloudInvalid BY <1>19 DEF CloudInvalid, Done, Begins
<1>20. CASE CloudValid BY <1>20 DEF CloudValid, Done, Begins
<1>21. CASE CloudNotOpened BY <1>21 DEF CloudNotOpened, Done, Begins
<1>22. CASE WriteError BY <1>22 DEF WriteError, Done, Begins
<1>23. CASE ConnectUsb BY <1>23 DEF ConnectUsb, In
<1>24. CASE MsdPowerLoss BY <1>24 DEF MsdPowerLoss, MsdRestart
<1>25. CASE MsdCrash BY <1>25 DEF MsdCrash, Done, MsdRestart
<1>26. CASE UNCHANGED msdVars BY <1>26 DEF msdVars
<1> QED BY <1>1, <1>2, <1>3, <1>4, <1>5, <1>6, <1>7, <1>8, <1>9, <1>10, <1>11, <1>12, <1>13,
       <1>14, <1>15, <1>16, <1>17, <1>18, <1>19, <1>20, <1>21, <1>22, <1>23, <1>24, <1>25,
       <1>26 DEF MsdNext, MSD_APP_Tasks

\* The keys.
LEMMA KeysStep ==
    ASSUME MsdTypeOK, Control, Filled, Present, [MsdNext]_msdVars
    PROVE  (serialNumValid /\ Reached(FromKeys) => Written({"slot0", "slot4"}))'
<1> USE DEF Present, Control, Filled, Attached, Configured, Reached, Written, Queued, Missing,
       storage, datastore, Touching, FromAtca, FromSerial, FromCerts, FromKeys, FromConfig
<1>1. CASE OpenFile
  <2> HIDE DEF Written, Queued
  <2>1. WriteFile => queue # <<>> BY DEF WriteFile
  <2>2. (serialNumValid /\ Reached(FromKeys))' => Written({"slot0", "slot4"}) BY <1>1 DEF
         OpenFile, Present
  <2> QED BY <1>1, <2>1, <2>2, WrittenKept, FileSets DEF OpenFile
<1>2. CASE WriteFile
  <2> HIDE DEF Written, Queued
  <2>1. WriteFile => queue # <<>> BY DEF WriteFile
  <2>2. (serialNumValid /\ Reached(FromKeys))' => Written({"slot0", "slot4"}) BY <1>2 DEF
         WriteFile, Present
  <2> QED BY <1>2, <2>1, <2>2, WrittenKept, FileSets DEF WriteFile
<1>3. CASE FileFails
  <2>1. queue # <<>> /\ phase \in Phases BY <1>3 DEF FileFails, MsdTypeOK
  <2> QED BY <1>3, <2>1 DEF FileFails, Phases
<1>4. CASE ReadSerial BY <1>4 DEF ReadSerial, In
<1>5. CASE Mount BY <1>5 DEF Mount, MountsToFormat, MountsToUse, RemovesErrorFile, In
<1>6. CASE FormatBegins BY <1>6 DEF FormatBegins, In
<1>7. CASE FormatEnds BY <1>7 DEF FormatEnds
<1>8. CASE FormatFails BY <1>8 DEF FormatFails
<1>9. CASE VersionDone BY <1>9 DEF VersionDone, Done, Begins
<1>10. CASE AtcaInit BY <1>10 DEF AtcaInit, Done, Begins
<1>11. CASE AtcaFails BY <1>11 DEF AtcaFails, Done, Begins
<1>12. CASE SerialDone BY <1>12 DEF SerialDone, Done, Begins
<1>13. CASE CertsDone
  <2>1. CASE KeysNeeded
    <3>1. drive' = drive /\ queue' = KeyFiles BY <1>13, <2>1 DEF CertsDone, Done, Begins
    <3> QED BY <3>1, QueueOfKeys
  <2>2. CASE ~KeysNeeded
    <3>1. drive' = drive /\ ~Missing("slot0") /\ ~Missing("slot4")
      BY <1>13, <2>2 DEF CertsDone, Done, Begins, KeysNeeded
    <3> QED BY <3>1
  <2> QED BY <2>1, <2>2
<1>14. CASE KeysDone BY <1>14 DEF KeysDone, Done, Begins
<1>15. CASE ConfigDone BY <1>15 DEF ConfigDone, Done, Begins
<1>16. CASE ConfigValid BY <1>16 DEF ConfigValid, Done, Begins
<1>17. CASE ConfigInvalid BY <1>17 DEF ConfigInvalid, Done, Begins
<1>18. CASE ConfigNotOpened BY <1>18 DEF ConfigNotOpened, Done, Begins
<1>19. CASE CloudInvalid BY <1>19 DEF CloudInvalid, Done, Begins
<1>20. CASE CloudValid BY <1>20 DEF CloudValid, Done, Begins
<1>21. CASE CloudNotOpened BY <1>21 DEF CloudNotOpened, Done, Begins
<1>22. CASE WriteError BY <1>22 DEF WriteError, Done, Begins
<1>23. CASE ConnectUsb BY <1>23 DEF ConnectUsb, In
<1>24. CASE MsdPowerLoss BY <1>24 DEF MsdPowerLoss, MsdRestart
<1>25. CASE MsdCrash BY <1>25 DEF MsdCrash, Done, MsdRestart
<1>26. CASE UNCHANGED msdVars BY <1>26 DEF msdVars
<1> QED BY <1>1, <1>2, <1>3, <1>4, <1>5, <1>6, <1>7, <1>8, <1>9, <1>10, <1>11, <1>12, <1>13,
       <1>14, <1>15, <1>16, <1>17, <1>18, <1>19, <1>20, <1>21, <1>22, <1>23, <1>24, <1>25,
       <1>26 DEF MsdNext, MSD_APP_Tasks

\* WIFI.CFG.
LEMMA ConfigStep ==
    ASSUME MsdTypeOK, Control, Filled, Present, [MsdNext]_msdVars
    PROVE  (serialNumValid /\ Reached(FromConfig) => Written({"config"}))'
<1> USE DEF Present, Control, Filled, Attached, Configured, Reached, Written, Queued, Missing,
       storage, datastore, Touching, FromAtca, FromSerial, FromCerts, FromKeys, FromConfig
<1>1. CASE OpenFile
  <2> HIDE DEF Written, Queued
  <2>1. WriteFile => queue # <<>> BY DEF WriteFile
  <2>2. (serialNumValid /\ Reached(FromConfig))' => Written({"config"}) BY <1>1 DEF OpenFile,
         Present
  <2> QED BY <1>1, <2>1, <2>2, WrittenKept, FileSets DEF OpenFile
<1>2. CASE WriteFile
  <2> HIDE DEF Written, Queued
  <2>1. WriteFile => queue # <<>> BY DEF WriteFile
  <2>2. (serialNumValid /\ Reached(FromConfig))' => Written({"config"}) BY <1>2 DEF WriteFile,
         Present
  <2> QED BY <1>2, <2>1, <2>2, WrittenKept, FileSets DEF WriteFile
<1>3. CASE FileFails
  <2>1. queue # <<>> /\ phase \in Phases BY <1>3 DEF FileFails, MsdTypeOK
  <2> QED BY <1>3, <2>1 DEF FileFails, Phases
<1>4. CASE ReadSerial BY <1>4 DEF ReadSerial, In
<1>5. CASE Mount BY <1>5 DEF Mount, MountsToFormat, MountsToUse, RemovesErrorFile, In
<1>6. CASE FormatBegins BY <1>6 DEF FormatBegins, In
<1>7. CASE FormatEnds BY <1>7 DEF FormatEnds
<1>8. CASE FormatFails BY <1>8 DEF FormatFails
<1>9. CASE VersionDone BY <1>9 DEF VersionDone, Done, Begins
<1>10. CASE AtcaInit BY <1>10 DEF AtcaInit, Done, Begins
<1>11. CASE AtcaFails BY <1>11 DEF AtcaFails, Done, Begins
<1>12. CASE SerialDone BY <1>12 DEF SerialDone, Done, Begins
<1>13. CASE CertsDone BY <1>13 DEF CertsDone, Done, Begins
<1>14. CASE KeysDone BY <1>14 DEF KeysDone, Done, Begins
<1>15. CASE ConfigDone BY <1>15 DEF ConfigDone, Done, Begins
<1>16. CASE ConfigValid BY <1>16 DEF ConfigValid, Done, Begins
<1>17. CASE ConfigInvalid BY <1>17 DEF ConfigInvalid, Done, Begins
<1>18. CASE ConfigNotOpened BY <1>18 DEF ConfigNotOpened, Done, Begins
<1>19. CASE CloudInvalid BY <1>19 DEF CloudInvalid, Done, Begins
<1>20. CASE CloudValid BY <1>20 DEF CloudValid, Done, Begins
<1>21. CASE CloudNotOpened BY <1>21 DEF CloudNotOpened, Done, Begins
<1>22. CASE WriteError BY <1>22 DEF WriteError, Done, Begins
<1>23. CASE ConnectUsb BY <1>23 DEF ConnectUsb, In
<1>24. CASE MsdPowerLoss BY <1>24 DEF MsdPowerLoss, MsdRestart
<1>25. CASE MsdCrash BY <1>25 DEF MsdCrash, Done, MsdRestart
<1>26. CASE UNCHANGED msdVars BY <1>26 DEF msdVars
<1> QED BY <1>1, <1>2, <1>3, <1>4, <1>5, <1>6, <1>7, <1>8, <1>9, <1>10, <1>11, <1>12, <1>13,
       <1>14, <1>15, <1>16, <1>17, <1>18, <1>19, <1>20, <1>21, <1>22, <1>23, <1>24, <1>25,
       <1>26 DEF MsdNext, MSD_APP_Tasks

-----------------------------------------------------------------------------
(* A start with SW1 pressed.                                                 *)

KeySet == {"slot0", "slot4", "certKeys"}

QueueIn(files) == \A i \in DOMAIN queue : queue[i] \in files

\* Each function writes its own files.
QueueOfPhase ==
    /\ phase = "Version" => QueueIn({"version"})
    /\ phase = "Serial" => QueueIn({"serial"})
    /\ phase = "Certs" => QueueIn(CertSet)
    /\ phase = "Keys" => QueueIn(KeySet)
    /\ phase = "WriteConfig" => QueueIn({"config"})

Fresh(files) == \A f \in files : Missing(f)
Restored(files) == \A f \in files : drive[f] = "Default" \/ Queued(f)

\* After formatting each function finds its files missing and writes them.
FreshFiles ==
    bootSwitch /\ ~silent =>
        /\ phase \in {"Format", "Version", "Atca"} =>
              Fresh({"serial", "config"} \cup CertSet \cup KeySet)
        /\ phase = "Serial" => Fresh({"config"} \cup CertSet \cup KeySet)
        /\ phase = "Certs" => Fresh({"config"} \cup KeySet)
        /\ phase = "Keys" => Fresh({"config"})

RestoredFiles ==
    bootSwitch /\ ~silent =>
        /\ Reached({"Version"} \cup FromAtca) => Restored({"version"})
        /\ Reached(FromSerial) => Restored({"serial"})
        /\ Reached(FromCerts) => Restored(CertSet)
        /\ Reached(FromKeys) => Restored(KeySet)
        /\ Reached(FromConfig) => Restored({"config"})

ResetInv == QueueOfPhase /\ FreshFiles /\ RestoredFiles

\* What each function puts into the queue.
LEMMA QueueOfPhaseStep ==
    ASSUME MsdTypeOK, Control, QueueOfPhase, [MsdNext]_msdVars
    PROVE  QueueOfPhase'
<1> USE ShortQueue DEF Control, QueueOfPhase, QueueIn, storage, datastore
<1>1. CASE OpenFile BY <1>1 DEF OpenFile
<1>2. CASE WriteFile
  <2>1. queue # <<>> BY <1>2 DEF WriteFile
  <2>2. queue' = Tail(queue) BY <1>2 DEF WriteFile
  <2>3. phase' = phase BY <1>2 DEF WriteFile
  <2>4. /\ Len(queue) \in Nat \ {0} /\ DOMAIN queue = 1 .. Len(queue)
        /\ DOMAIN queue' = 1 .. Len(queue) - 1
        /\ \A i \in 1 .. Len(queue) - 1 : queue'[i] = queue[i + 1]
    BY <2>1, <2>2, TailFacts DEF MsdTypeOK
  <2>5. \A i \in DOMAIN queue' : i + 1 \in DOMAIN queue /\ queue'[i] = queue[i + 1]
    BY <2>4
  <2> QED BY <2>3, <2>5
<1>3. CASE FileFails
  <2>1. queue' = <<>> BY <1>3 DEF FileFails
  <2> QED BY <2>1
<1>4. CASE ReadSerial BY <1>4 DEF ReadSerial, In
<1>5. CASE Mount BY <1>5 DEF Mount, MountsToFormat, MountsToUse, RemovesErrorFile, In
<1>6. CASE FormatBegins BY <1>6 DEF FormatBegins, In
<1>7. CASE FormatEnds BY <1>7 DEF FormatEnds
<1>8. CASE FormatFails BY <1>8 DEF FormatFails
<1>9. CASE VersionDone BY <1>9 DEF VersionDone, Done, Begins
<1>10. CASE AtcaInit BY <1>10 DEF AtcaInit, Done, Begins
<1>11. CASE AtcaFails BY <1>11 DEF AtcaFails, Done, Begins
<1>12. CASE SerialDone BY <1>12, QueueOfCerts DEF SerialDone, Done, Begins
<1>13. CASE CertsDone
  <2>1. queue' = <<>> \/ queue' = KeyFiles BY <1>13 DEF CertsDone, Done, Begins
  <2> QED BY <1>13, <2>1, QueueOfKeys DEF CertsDone, Done, Begins, KeySet
<1>14. CASE KeysDone BY <1>14 DEF KeysDone, Done, Begins
<1>15. CASE ConfigDone BY <1>15 DEF ConfigDone, Done, Begins
<1>16. CASE ConfigValid BY <1>16 DEF ConfigValid, Done, Begins
<1>17. CASE ConfigInvalid BY <1>17 DEF ConfigInvalid, Done, Begins
<1>18. CASE ConfigNotOpened BY <1>18 DEF ConfigNotOpened, Done, Begins
<1>19. CASE CloudInvalid BY <1>19 DEF CloudInvalid, Done, Begins
<1>20. CASE CloudValid BY <1>20 DEF CloudValid, Done, Begins
<1>21. CASE CloudNotOpened BY <1>21 DEF CloudNotOpened, Done, Begins
<1>22. CASE WriteError BY <1>22 DEF WriteError, Done, Begins
<1>23. CASE ConnectUsb BY <1>23 DEF ConnectUsb, In
<1>24. CASE MsdPowerLoss BY <1>24 DEF MsdPowerLoss, MsdRestart
<1>25. CASE MsdCrash BY <1>25 DEF MsdCrash, Done, MsdRestart
<1>26. CASE UNCHANGED msdVars BY <1>26 DEF msdVars
<1> QED BY <1>1, <1>2, <1>3, <1>4, <1>5, <1>6, <1>7, <1>8, <1>9, <1>10, <1>11, <1>12, <1>13,
       <1>14, <1>15, <1>16, <1>17, <1>18, <1>19, <1>20, <1>21, <1>22, <1>23, <1>24, <1>25,
       <1>26 DEF MsdNext, MSD_APP_Tasks

LEMMA RestoredKept ==
    ASSUME MsdTypeOK, OpenFile \/ (WriteFile /\ queue # <<>>),
           NEW files \in SUBSET Files, Restored(files)
    PROVE  Restored(files)'
<1> SUFFICES ASSUME NEW f \in files, drive'[f] # "Default"
             PROVE  \E i \in DOMAIN queue' : queue'[i] = f
  BY DEF Restored, Queued
<1> USE DEF MsdTypeOK
<1>1. CASE OpenFile
  <2>1. /\ queue' = queue /\ Head(queue) \in Files /\ Head(queue) = queue[1] /\ 1 \in DOMAIN
         queue
        /\ drive' = [drive EXCEPT ![Head(queue)] = "Empty"]
    BY <1>1, TailFacts DEF OpenFile
  <2>2. CASE f = queue[1] BY <2>1, <2>2
  <2>3. CASE f # queue[1]
    <3>1. drive[f] # "Default" BY <2>1, <2>3
    <3> QED BY <2>1, <3>1 DEF Restored, Queued
  <2> QED BY <2>2, <2>3
<1>2. CASE WriteFile /\ queue # <<>>
  <2>1. /\ queue' = Tail(queue) /\ queue[1] \in Files
        /\ drive' = [drive EXCEPT ![queue[1]] = "Default"]
    BY <1>2, TailFacts DEF WriteFile
  <2>2. /\ Len(queue) \in Nat \ {0} /\ DOMAIN queue = 1 .. Len(queue)
        /\ DOMAIN queue' = 1 .. Len(queue) - 1
        /\ \A i \in 1 .. Len(queue) - 1 : queue'[i] = queue[i + 1]
    BY <1>2, <2>1, TailFacts
  <2>3. drive[f] # "Default" /\ f # queue[1] BY <2>1
  <2>4. PICK i \in DOMAIN queue : queue[i] = f BY <2>3 DEF Restored, Queued
  <2>5. i # 1 BY <2>3, <2>4
  <2>6. i - 1 \in DOMAIN queue' /\ queue'[i - 1] = queue[i] BY <2>2, <2>4, <2>5
  <2> QED BY <2>4, <2>6
<1> QED BY <1>1, <1>2

\* A file that is not in the queue stays missing.
LEMMA FreshKept ==
    ASSUME MsdTypeOK, OpenFile \/ (WriteFile /\ queue # <<>>),
           NEW files \in SUBSET Files, Fresh(files), NEW own, QueueIn(own), own \cap files = {}
    PROVE  Fresh(files)'
<1>1. Head(queue) \in own /\ Head(queue) \in Files
  BY TailFacts DEF OpenFile, QueueIn, MsdTypeOK
<1>2. \A f \in files : f # Head(queue) BY <1>1
<1>3. drive \in [Files -> Contents] BY DEF MsdTypeOK
<1> QED BY <1>1, <1>2, <1>3 DEF OpenFile, WriteFile, Fresh, Missing

LEMMA MoreFileSets ==
    /\ KeySet \subseteq Files
    /\ {"version"} \cap ({"serial", "config"} \cup CertSet \cup KeySet) = {}
    /\ {"serial"} \cap ({"config"} \cup CertSet \cup KeySet) = {}
    /\ CertSet \cap ({"config"} \cup KeySet) = {}
    /\ KeySet \cap {"config"} = {}
BY FilesAre DEF AllFiles, CertSet, KeySet

\* What is still to be written is missing.
LEMMA FreshStep ==
    ASSUME MsdTypeOK, Control, QueueOfPhase, FreshFiles, [MsdNext]_msdVars
    PROVE  FreshFiles'
<1> USE DEF Control, FreshFiles, Fresh, Missing, storage, datastore
<1>1. CASE OpenFile
  <2> HIDE DEF Fresh, Missing
  <2>1. WriteFile => queue # <<>> BY DEF WriteFile
  <2>2. SUFFICES ASSUME bootSwitch, ~silent
                 PROVE  FreshFiles'
    BY <1>1 DEF OpenFile
  <2>3. phase' = phase BY <1>1 DEF OpenFile
  <2>4. phase = "Version" => Fresh({"serial", "config"} \cup CertSet \cup KeySet)'
    BY <1>1, <2>1, <2>2, FreshKept, FileSets, MoreFileSets DEF QueueOfPhase
  <2>5. phase = "Serial" => Fresh({"config"} \cup CertSet \cup KeySet)'
    BY <1>1, <2>1, <2>2, FreshKept, FileSets, MoreFileSets DEF QueueOfPhase
  <2>6. phase = "Certs" => Fresh({"config"} \cup KeySet)'
    BY <1>1, <2>1, <2>2, FreshKept, FileSets, MoreFileSets DEF QueueOfPhase
  <2>7. phase = "Keys" => Fresh({"config"})'
    BY <1>1, <2>1, <2>2, FreshKept, FileSets, MoreFileSets DEF QueueOfPhase
  <2>8. phase \notin {"Format", "Atca"} BY <1>1, <2>1 DEF OpenFile
  <2> QED BY <2>3, <2>4, <2>5, <2>6, <2>7, <2>8
<1>2. CASE WriteFile
  <2> HIDE DEF Fresh, Missing
  <2>1. WriteFile => queue # <<>> BY DEF WriteFile
  <2>2. SUFFICES ASSUME bootSwitch, ~silent
                 PROVE  FreshFiles'
    BY <1>2 DEF WriteFile
  <2>3. phase' = phase BY <1>2 DEF WriteFile
  <2>4. phase = "Version" => Fresh({"serial", "config"} \cup CertSet \cup KeySet)'
    BY <1>2, <2>1, <2>2, FreshKept, FileSets, MoreFileSets DEF QueueOfPhase
  <2>5. phase = "Serial" => Fresh({"config"} \cup CertSet \cup KeySet)'
    BY <1>2, <2>1, <2>2, FreshKept, FileSets, MoreFileSets DEF QueueOfPhase
  <2>6. phase = "Certs" => Fresh({"config"} \cup KeySet)'
    BY <1>2, <2>1, <2>2, FreshKept, FileSets, MoreFileSets DEF QueueOfPhase
  <2>7. phase = "Keys" => Fresh({"config"})'
    BY <1>2, <2>1, <2>2, FreshKept, FileSets, MoreFileSets DEF QueueOfPhase
  <2>8. phase \notin {"Format", "Atca"} BY <1>2, <2>1 DEF OpenFile
  <2> QED BY <2>3, <2>4, <2>5, <2>6, <2>7, <2>8
<1>3. CASE FileFails
  <2>1. queue # <<>> /\ phase' \in {"Atca", "Error"} /\ (phase' = "Atca" => silent')
    BY <1>3 DEF FileFails
  <2> QED BY <2>1
<1>4. CASE ReadSerial BY <1>4 DEF ReadSerial, In
<1>5. CASE Mount BY <1>5 DEF Mount, MountsToFormat, MountsToUse, RemovesErrorFile, In
<1>6. CASE FormatBegins BY <1>6, FileSets, MoreFileSets DEF FormatBegins, In
<1>7. CASE FormatEnds BY <1>7 DEF FormatEnds
<1>8. CASE FormatFails BY <1>8 DEF FormatFails
<1>9. CASE VersionDone BY <1>9 DEF VersionDone, Done, Begins
<1>10. CASE AtcaInit BY <1>10 DEF AtcaInit, Done, Begins
<1>11. CASE AtcaFails BY <1>11 DEF AtcaFails, Done, Begins
<1>12. CASE SerialDone BY <1>12 DEF SerialDone, Done, Begins
<1>13. CASE CertsDone BY <1>13 DEF CertsDone, Done, Begins
<1>14. CASE KeysDone BY <1>14 DEF KeysDone, Done, Begins
<1>15. CASE ConfigDone BY <1>15 DEF ConfigDone, Done, Begins
<1>16. CASE ConfigValid BY <1>16 DEF ConfigValid, Done, Begins
<1>17. CASE ConfigInvalid BY <1>17 DEF ConfigInvalid, Done, Begins
<1>18. CASE ConfigNotOpened BY <1>18 DEF ConfigNotOpened, Done, Begins
<1>19. CASE CloudInvalid BY <1>19 DEF CloudInvalid, Done, Begins
<1>20. CASE CloudValid BY <1>20 DEF CloudValid, Done, Begins
<1>21. CASE CloudNotOpened BY <1>21 DEF CloudNotOpened, Done, Begins
<1>22. CASE WriteError BY <1>22 DEF WriteError, Done, Begins
<1>23. CASE ConnectUsb BY <1>23 DEF ConnectUsb, In
<1>24. CASE MsdPowerLoss BY <1>24 DEF MsdPowerLoss, MsdRestart
<1>25. CASE MsdCrash BY <1>25 DEF MsdCrash, Done, MsdRestart
<1>26. CASE UNCHANGED msdVars BY <1>26 DEF msdVars
<1> QED BY <1>1, <1>2, <1>3, <1>4, <1>5, <1>6, <1>7, <1>8, <1>9, <1>10, <1>11, <1>12, <1>13,
       <1>14, <1>15, <1>16, <1>17, <1>18, <1>19, <1>20, <1>21, <1>22, <1>23, <1>24, <1>25,
       <1>26 DEF MsdNext, MSD_APP_Tasks

\* The file with the version.
LEMMA VersionRestored ==
    ASSUME MsdTypeOK, Control, Filled, FreshFiles, RestoredFiles, [MsdNext]_msdVars
    PROVE  (bootSwitch /\ ~silent /\ Reached({"Version"} \cup FromAtca) =>
           Restored({"version"}))'
<1> USE DEF FreshFiles, Fresh, RestoredFiles, Control, Filled, Attached, Configured, Reached,
       Restored, Queued, Missing, storage, datastore, Touching, FromAtca, FromSerial,
       FromCerts, FromKeys, FromConfig
<1>1. CASE OpenFile
  <2> HIDE DEF Restored, Queued
  <2>1. WriteFile => queue # <<>> BY DEF WriteFile
  <2>2. (bootSwitch /\ ~silent /\ Reached({"Version"} \cup FromAtca))' =>
         Restored({"version"}) BY <1>1 DEF OpenFile
  <2> QED BY <1>1, <2>1, <2>2, RestoredKept, FileSets, MoreFileSets DEF OpenFile
<1>2. CASE WriteFile
  <2> HIDE DEF Restored, Queued
  <2>1. WriteFile => queue # <<>> BY DEF WriteFile
  <2>2. (bootSwitch /\ ~silent /\ Reached({"Version"} \cup FromAtca))' =>
         Restored({"version"}) BY <1>2 DEF WriteFile
  <2> QED BY <1>2, <2>1, <2>2, RestoredKept, FileSets, MoreFileSets DEF WriteFile
<1>3. CASE FileFails
  <2>1. queue # <<>> /\ phase \in Phases BY <1>3 DEF FileFails, MsdTypeOK
  <2> QED BY <1>3, <2>1 DEF FileFails, Phases
<1>4. CASE ReadSerial BY <1>4 DEF ReadSerial, In
<1>5. CASE Mount BY <1>5 DEF Mount, MountsToFormat, MountsToUse, RemovesErrorFile, In
<1>6. CASE FormatBegins BY <1>6 DEF FormatBegins, In
<1>7. CASE FormatEnds BY <1>7 DEF FormatEnds
<1>8. CASE FormatFails BY <1>8 DEF FormatFails
<1>9. CASE VersionDone BY <1>9 DEF VersionDone, Done, Begins
<1>10. CASE AtcaInit BY <1>10 DEF AtcaInit, Done, Begins
<1>11. CASE AtcaFails BY <1>11 DEF AtcaFails, Done, Begins
<1>12. CASE SerialDone BY <1>12 DEF SerialDone, Done, Begins
<1>13. CASE CertsDone BY <1>13 DEF CertsDone, Done, Begins
<1>14. CASE KeysDone BY <1>14 DEF KeysDone, Done, Begins
<1>15. CASE ConfigDone BY <1>15 DEF ConfigDone, Done, Begins
<1>16. CASE ConfigValid BY <1>16 DEF ConfigValid, Done, Begins
<1>17. CASE ConfigInvalid BY <1>17 DEF ConfigInvalid, Done, Begins
<1>18. CASE ConfigNotOpened BY <1>18 DEF ConfigNotOpened, Done, Begins
<1>19. CASE CloudInvalid BY <1>19 DEF CloudInvalid, Done, Begins
<1>20. CASE CloudValid BY <1>20 DEF CloudValid, Done, Begins
<1>21. CASE CloudNotOpened BY <1>21 DEF CloudNotOpened, Done, Begins
<1>22. CASE WriteError BY <1>22 DEF WriteError, Done, Begins
<1>23. CASE ConnectUsb BY <1>23 DEF ConnectUsb, In
<1>24. CASE MsdPowerLoss BY <1>24 DEF MsdPowerLoss, MsdRestart
<1>25. CASE MsdCrash BY <1>25 DEF MsdCrash, Done, MsdRestart
<1>26. CASE UNCHANGED msdVars BY <1>26 DEF msdVars
<1> QED BY <1>1, <1>2, <1>3, <1>4, <1>5, <1>6, <1>7, <1>8, <1>9, <1>10, <1>11, <1>12, <1>13,
       <1>14, <1>15, <1>16, <1>17, <1>18, <1>19, <1>20, <1>21, <1>22, <1>23, <1>24, <1>25,
       <1>26 DEF MsdNext, MSD_APP_Tasks

\* The file with the serial number.
LEMMA SerialRestored ==
    ASSUME MsdTypeOK, Control, Filled, FreshFiles, RestoredFiles, [MsdNext]_msdVars
    PROVE  (bootSwitch /\ ~silent /\ Reached(FromSerial) => Restored({"serial"}))'
<1> USE DEF FreshFiles, Fresh, RestoredFiles, Control, Filled, Attached, Configured, Reached,
       Restored, Queued, Missing, storage, datastore, Touching, FromAtca, FromSerial,
       FromCerts, FromKeys, FromConfig
<1>1. CASE OpenFile
  <2> HIDE DEF Restored, Queued
  <2>1. WriteFile => queue # <<>> BY DEF WriteFile
  <2>2. (bootSwitch /\ ~silent /\ Reached(FromSerial))' => Restored({"serial"}) BY <1>1 DEF
         OpenFile
  <2> QED BY <1>1, <2>1, <2>2, RestoredKept, FileSets, MoreFileSets DEF OpenFile
<1>2. CASE WriteFile
  <2> HIDE DEF Restored, Queued
  <2>1. WriteFile => queue # <<>> BY DEF WriteFile
  <2>2. (bootSwitch /\ ~silent /\ Reached(FromSerial))' => Restored({"serial"}) BY <1>2 DEF
         WriteFile
  <2> QED BY <1>2, <2>1, <2>2, RestoredKept, FileSets, MoreFileSets DEF WriteFile
<1>3. CASE FileFails
  <2>1. queue # <<>> /\ phase \in Phases BY <1>3 DEF FileFails, MsdTypeOK
  <2> QED BY <1>3, <2>1 DEF FileFails, Phases
<1>4. CASE ReadSerial BY <1>4 DEF ReadSerial, In
<1>5. CASE Mount BY <1>5 DEF Mount, MountsToFormat, MountsToUse, RemovesErrorFile, In
<1>6. CASE FormatBegins BY <1>6 DEF FormatBegins, In
<1>7. CASE FormatEnds BY <1>7 DEF FormatEnds
<1>8. CASE FormatFails BY <1>8 DEF FormatFails
<1>9. CASE VersionDone BY <1>9 DEF VersionDone, Done, Begins
<1>10. CASE AtcaInit BY <1>10 DEF AtcaInit, Done, Begins
<1>11. CASE AtcaFails BY <1>11 DEF AtcaFails, Done, Begins
<1>12. CASE SerialDone BY <1>12 DEF SerialDone, Done, Begins
<1>13. CASE CertsDone BY <1>13 DEF CertsDone, Done, Begins
<1>14. CASE KeysDone BY <1>14 DEF KeysDone, Done, Begins
<1>15. CASE ConfigDone BY <1>15 DEF ConfigDone, Done, Begins
<1>16. CASE ConfigValid BY <1>16 DEF ConfigValid, Done, Begins
<1>17. CASE ConfigInvalid BY <1>17 DEF ConfigInvalid, Done, Begins
<1>18. CASE ConfigNotOpened BY <1>18 DEF ConfigNotOpened, Done, Begins
<1>19. CASE CloudInvalid BY <1>19 DEF CloudInvalid, Done, Begins
<1>20. CASE CloudValid BY <1>20 DEF CloudValid, Done, Begins
<1>21. CASE CloudNotOpened BY <1>21 DEF CloudNotOpened, Done, Begins
<1>22. CASE WriteError BY <1>22 DEF WriteError, Done, Begins
<1>23. CASE ConnectUsb BY <1>23 DEF ConnectUsb, In
<1>24. CASE MsdPowerLoss BY <1>24 DEF MsdPowerLoss, MsdRestart
<1>25. CASE MsdCrash BY <1>25 DEF MsdCrash, Done, MsdRestart
<1>26. CASE UNCHANGED msdVars BY <1>26 DEF msdVars
<1> QED BY <1>1, <1>2, <1>3, <1>4, <1>5, <1>6, <1>7, <1>8, <1>9, <1>10, <1>11, <1>12, <1>13,
       <1>14, <1>15, <1>16, <1>17, <1>18, <1>19, <1>20, <1>21, <1>22, <1>23, <1>24, <1>25,
       <1>26 DEF MsdNext, MSD_APP_Tasks

\* The certificates and cloud.json.
LEMMA CertsRestored ==
    ASSUME MsdTypeOK, Control, Filled, FreshFiles, RestoredFiles, [MsdNext]_msdVars
    PROVE  (bootSwitch /\ ~silent /\ Reached(FromCerts) => Restored(CertSet))'
<1> USE DEF FreshFiles, Fresh, RestoredFiles, Control, Filled, Attached, Configured, Reached,
       Restored, Queued, Missing, storage, datastore, Touching, FromAtca, FromSerial,
       FromCerts, FromKeys, FromConfig
<1>1. CASE OpenFile
  <2> HIDE DEF Restored, Queued
  <2>1. WriteFile => queue # <<>> BY DEF WriteFile
  <2>2. (bootSwitch /\ ~silent /\ Reached(FromCerts))' => Restored(CertSet) BY <1>1 DEF OpenFile
  <2> QED BY <1>1, <2>1, <2>2, RestoredKept, FileSets, MoreFileSets DEF OpenFile
<1>2. CASE WriteFile
  <2> HIDE DEF Restored, Queued
  <2>1. WriteFile => queue # <<>> BY DEF WriteFile
  <2>2. (bootSwitch /\ ~silent /\ Reached(FromCerts))' => Restored(CertSet) BY <1>2 DEF
         WriteFile
  <2> QED BY <1>2, <2>1, <2>2, RestoredKept, FileSets, MoreFileSets DEF WriteFile
<1>3. CASE FileFails
  <2>1. queue # <<>> /\ phase \in Phases BY <1>3 DEF FileFails, MsdTypeOK
  <2> QED BY <1>3, <2>1 DEF FileFails, Phases
<1>4. CASE ReadSerial BY <1>4 DEF ReadSerial, In
<1>5. CASE Mount BY <1>5 DEF Mount, MountsToFormat, MountsToUse, RemovesErrorFile, In
<1>6. CASE FormatBegins BY <1>6 DEF FormatBegins, In
<1>7. CASE FormatEnds BY <1>7 DEF FormatEnds
<1>8. CASE FormatFails BY <1>8 DEF FormatFails
<1>9. CASE VersionDone BY <1>9 DEF VersionDone, Done, Begins
<1>10. CASE AtcaInit BY <1>10 DEF AtcaInit, Done, Begins
<1>11. CASE AtcaFails BY <1>11 DEF AtcaFails, Done, Begins
<1>12. CASE SerialDone
  <2>1. CASE ~bootSwitch \/ silent BY <1>12, <2>1 DEF SerialDone, Done, Begins
  <2>2. CASE bootSwitch /\ ~silent
    <3>1. phase = "Serial" /\ Missing("cloud") BY <1>12, <2>2 DEF SerialDone, Done, Begins,
           CertSet
    <3>2. drive' = drive /\ queue' = CertQueue BY <1>12, <3>1 DEF SerialDone, Done, Begins,
           CertsNeeded
    <3>3. \A f \in CertSet : \E i \in DOMAIN CertQueue : CertQueue[i] = f
      BY <3>1, QueueOfCerts
    <3> QED BY <3>2, <3>3
  <2> QED BY <2>1, <2>2
<1>13. CASE CertsDone BY <1>13 DEF CertsDone, Done, Begins
<1>14. CASE KeysDone BY <1>14 DEF KeysDone, Done, Begins
<1>15. CASE ConfigDone BY <1>15 DEF ConfigDone, Done, Begins
<1>16. CASE ConfigValid BY <1>16 DEF ConfigValid, Done, Begins
<1>17. CASE ConfigInvalid BY <1>17 DEF ConfigInvalid, Done, Begins
<1>18. CASE ConfigNotOpened BY <1>18 DEF ConfigNotOpened, Done, Begins
<1>19. CASE CloudInvalid BY <1>19 DEF CloudInvalid, Done, Begins
<1>20. CASE CloudValid BY <1>20 DEF CloudValid, Done, Begins
<1>21. CASE CloudNotOpened BY <1>21 DEF CloudNotOpened, Done, Begins
<1>22. CASE WriteError BY <1>22 DEF WriteError, Done, Begins
<1>23. CASE ConnectUsb BY <1>23 DEF ConnectUsb, In
<1>24. CASE MsdPowerLoss BY <1>24 DEF MsdPowerLoss, MsdRestart
<1>25. CASE MsdCrash BY <1>25 DEF MsdCrash, Done, MsdRestart
<1>26. CASE UNCHANGED msdVars BY <1>26 DEF msdVars
<1> QED BY <1>1, <1>2, <1>3, <1>4, <1>5, <1>6, <1>7, <1>8, <1>9, <1>10, <1>11, <1>12, <1>13,
       <1>14, <1>15, <1>16, <1>17, <1>18, <1>19, <1>20, <1>21, <1>22, <1>23, <1>24, <1>25,
       <1>26 DEF MsdNext, MSD_APP_Tasks

\* The keys.
LEMMA KeysRestored ==
    ASSUME MsdTypeOK, Control, Filled, FreshFiles, RestoredFiles, [MsdNext]_msdVars
    PROVE  (bootSwitch /\ ~silent /\ Reached(FromKeys) => Restored(KeySet))'
<1> USE DEF FreshFiles, Fresh, RestoredFiles, Control, Filled, Attached, Configured, Reached,
       Restored, Queued, Missing, storage, datastore, Touching, FromAtca, FromSerial,
       FromCerts, FromKeys, FromConfig
<1>1. CASE OpenFile
  <2> HIDE DEF Restored, Queued
  <2>1. WriteFile => queue # <<>> BY DEF WriteFile
  <2>2. (bootSwitch /\ ~silent /\ Reached(FromKeys))' => Restored(KeySet) BY <1>1 DEF OpenFile
  <2> QED BY <1>1, <2>1, <2>2, RestoredKept, FileSets, MoreFileSets DEF OpenFile
<1>2. CASE WriteFile
  <2> HIDE DEF Restored, Queued
  <2>1. WriteFile => queue # <<>> BY DEF WriteFile
  <2>2. (bootSwitch /\ ~silent /\ Reached(FromKeys))' => Restored(KeySet) BY <1>2 DEF WriteFile
  <2> QED BY <1>2, <2>1, <2>2, RestoredKept, FileSets, MoreFileSets DEF WriteFile
<1>3. CASE FileFails
  <2>1. queue # <<>> /\ phase \in Phases BY <1>3 DEF FileFails, MsdTypeOK
  <2> QED BY <1>3, <2>1 DEF FileFails, Phases
<1>4. CASE ReadSerial BY <1>4 DEF ReadSerial, In
<1>5. CASE Mount BY <1>5 DEF Mount, MountsToFormat, MountsToUse, RemovesErrorFile, In
<1>6. CASE FormatBegins BY <1>6 DEF FormatBegins, In
<1>7. CASE FormatEnds BY <1>7 DEF FormatEnds
<1>8. CASE FormatFails BY <1>8 DEF FormatFails
<1>9. CASE VersionDone BY <1>9 DEF VersionDone, Done, Begins
<1>10. CASE AtcaInit BY <1>10 DEF AtcaInit, Done, Begins
<1>11. CASE AtcaFails BY <1>11 DEF AtcaFails, Done, Begins
<1>12. CASE SerialDone BY <1>12 DEF SerialDone, Done, Begins
<1>13. CASE CertsDone
  <2>1. CASE ~bootSwitch \/ silent BY <1>13, <2>1 DEF CertsDone, Done, Begins
  <2>2. CASE bootSwitch /\ ~silent
    <3>1. phase = "Certs" /\ Missing("slot0") BY <1>13, <2>2 DEF CertsDone, Done, Begins, KeySet
    <3>2. drive' = drive /\ queue' = KeyFiles BY <1>13, <3>1 DEF CertsDone, Done, Begins,
           KeysNeeded
    <3> QED BY <3>2, QueueOfKeys DEF KeySet
  <2> QED BY <2>1, <2>2
<1>14. CASE KeysDone BY <1>14 DEF KeysDone, Done, Begins
<1>15. CASE ConfigDone BY <1>15 DEF ConfigDone, Done, Begins
<1>16. CASE ConfigValid BY <1>16 DEF ConfigValid, Done, Begins
<1>17. CASE ConfigInvalid BY <1>17 DEF ConfigInvalid, Done, Begins
<1>18. CASE ConfigNotOpened BY <1>18 DEF ConfigNotOpened, Done, Begins
<1>19. CASE CloudInvalid BY <1>19 DEF CloudInvalid, Done, Begins
<1>20. CASE CloudValid BY <1>20 DEF CloudValid, Done, Begins
<1>21. CASE CloudNotOpened BY <1>21 DEF CloudNotOpened, Done, Begins
<1>22. CASE WriteError BY <1>22 DEF WriteError, Done, Begins
<1>23. CASE ConnectUsb BY <1>23 DEF ConnectUsb, In
<1>24. CASE MsdPowerLoss BY <1>24 DEF MsdPowerLoss, MsdRestart
<1>25. CASE MsdCrash BY <1>25 DEF MsdCrash, Done, MsdRestart
<1>26. CASE UNCHANGED msdVars BY <1>26 DEF msdVars
<1> QED BY <1>1, <1>2, <1>3, <1>4, <1>5, <1>6, <1>7, <1>8, <1>9, <1>10, <1>11, <1>12, <1>13,
       <1>14, <1>15, <1>16, <1>17, <1>18, <1>19, <1>20, <1>21, <1>22, <1>23, <1>24, <1>25,
       <1>26 DEF MsdNext, MSD_APP_Tasks

\* WIFI.CFG.
LEMMA ConfigRestored ==
    ASSUME MsdTypeOK, Control, Filled, FreshFiles, RestoredFiles, [MsdNext]_msdVars
    PROVE  (bootSwitch /\ ~silent /\ Reached(FromConfig) => Restored({"config"}))'
<1> USE DEF FreshFiles, Fresh, RestoredFiles, Control, Filled, Attached, Configured, Reached,
       Restored, Queued, Missing, storage, datastore, Touching, FromAtca, FromSerial,
       FromCerts, FromKeys, FromConfig
<1>1. CASE OpenFile
  <2> HIDE DEF Restored, Queued
  <2>1. WriteFile => queue # <<>> BY DEF WriteFile
  <2>2. (bootSwitch /\ ~silent /\ Reached(FromConfig))' => Restored({"config"}) BY <1>1 DEF
         OpenFile
  <2> QED BY <1>1, <2>1, <2>2, RestoredKept, FileSets, MoreFileSets DEF OpenFile
<1>2. CASE WriteFile
  <2> HIDE DEF Restored, Queued
  <2>1. WriteFile => queue # <<>> BY DEF WriteFile
  <2>2. (bootSwitch /\ ~silent /\ Reached(FromConfig))' => Restored({"config"}) BY <1>2 DEF
         WriteFile
  <2> QED BY <1>2, <2>1, <2>2, RestoredKept, FileSets, MoreFileSets DEF WriteFile
<1>3. CASE FileFails
  <2>1. queue # <<>> /\ phase \in Phases BY <1>3 DEF FileFails, MsdTypeOK
  <2> QED BY <1>3, <2>1 DEF FileFails, Phases
<1>4. CASE ReadSerial BY <1>4 DEF ReadSerial, In
<1>5. CASE Mount BY <1>5 DEF Mount, MountsToFormat, MountsToUse, RemovesErrorFile, In
<1>6. CASE FormatBegins BY <1>6 DEF FormatBegins, In
<1>7. CASE FormatEnds BY <1>7 DEF FormatEnds
<1>8. CASE FormatFails BY <1>8 DEF FormatFails
<1>9. CASE VersionDone BY <1>9 DEF VersionDone, Done, Begins
<1>10. CASE AtcaInit BY <1>10 DEF AtcaInit, Done, Begins
<1>11. CASE AtcaFails BY <1>11 DEF AtcaFails, Done, Begins
<1>12. CASE SerialDone BY <1>12 DEF SerialDone, Done, Begins
<1>13. CASE CertsDone BY <1>13 DEF CertsDone, Done, Begins
<1>14. CASE KeysDone BY <1>14 DEF KeysDone, Done, Begins
<1>15. CASE ConfigDone BY <1>15 DEF ConfigDone, Done, Begins
<1>16. CASE ConfigValid BY <1>16 DEF ConfigValid, Done, Begins
<1>17. CASE ConfigInvalid BY <1>17 DEF ConfigInvalid, Done, Begins
<1>18. CASE ConfigNotOpened BY <1>18 DEF ConfigNotOpened, Done, Begins
<1>19. CASE CloudInvalid BY <1>19 DEF CloudInvalid, Done, Begins
<1>20. CASE CloudValid BY <1>20 DEF CloudValid, Done, Begins
<1>21. CASE CloudNotOpened BY <1>21 DEF CloudNotOpened, Done, Begins
<1>22. CASE WriteError BY <1>22 DEF WriteError, Done, Begins
<1>23. CASE ConnectUsb BY <1>23 DEF ConnectUsb, In
<1>24. CASE MsdPowerLoss BY <1>24 DEF MsdPowerLoss, MsdRestart
<1>25. CASE MsdCrash BY <1>25 DEF MsdCrash, Done, MsdRestart
<1>26. CASE UNCHANGED msdVars BY <1>26 DEF msdVars
<1> QED BY <1>1, <1>2, <1>3, <1>4, <1>5, <1>6, <1>7, <1>8, <1>9, <1>10, <1>11, <1>12, <1>13,
       <1>14, <1>15, <1>16, <1>17, <1>18, <1>19, <1>20, <1>21, <1>22, <1>23, <1>24, <1>25,
       <1>26 DEF MsdNext, MSD_APP_Tasks

-----------------------------------------------------------------------------
(* The theorems.                                                             *)

\* cloud.json is opened when the certificates are complete.
LEMMA LastComesCloud ==
    ASSUME MsdTypeOK, Control, Filled, QueueSparesUser, Present, [MsdNext]_msdVars
    PROVE  (Missing("cer") \/ Missing("voice") => Missing("cloud"))'
<1> USE FilesHave DEF Present, Control, storage, datastore, Missing
<1>1. CASE OpenFile
  <2>1. /\ drive' = [drive EXCEPT ![queue[1]] = "Empty"] /\ queue[1] \in Files
        /\ Len(queue) \in Nat \ {0} /\ DOMAIN queue = 1 .. Len(queue)
    BY <1>1, TailFacts DEF OpenFile, MsdTypeOK
  <2>2. drive \in [Files -> Contents] BY DEF MsdTypeOK
  <2>3. CASE queue[1] = "cloud"
    <3>1. 1 = Len(queue) /\ phase = "Certs"
      BY <2>1, <2>3 DEF QueueSparesUser, UserFiles
    <3>2. Written(CertSet) BY <3>1 DEF Filled, Reached, FromCerts
    <3>3. \A i \in 1 .. 1 : i = 1 OBVIOUS
    <3>4. \A i \in DOMAIN queue : queue[i] = "cloud" BY <2>1, <2>3, <3>1, <3>3
    <3>5. ~Missing("cer") /\ ~Missing("voice")
      BY <3>2, <3>4 DEF Written, Queued, CertSet
    <3> QED BY <2>1, <2>2, <2>3, <3>5
  <2>4. CASE queue[1] # "cloud" BY <2>1, <2>2, <2>4
  <2> QED BY <2>3, <2>4
<1>2. CASE WriteFile
  <2>1. /\ drive' = [drive EXCEPT ![queue[1]] = "Default"] /\ queue[1] \in Files
        /\ Len(queue) \in Nat \ {0} /\ DOMAIN queue = 1 .. Len(queue)
    BY <1>2, TailFacts DEF WriteFile, MsdTypeOK
  <2>2. drive \in [Files -> Contents] BY DEF MsdTypeOK
  <2>3. CASE queue[1] = "cloud"
    <3>1. 1 = Len(queue) /\ phase = "Certs"
      BY <2>1, <2>3 DEF QueueSparesUser, UserFiles
    <3>2. Written(CertSet) BY <3>1 DEF Filled, Reached, FromCerts
    <3>3. \A i \in 1 .. 1 : i = 1 OBVIOUS
    <3>4. \A i \in DOMAIN queue : queue[i] = "cloud" BY <2>1, <2>3, <3>1, <3>3
    <3>5. ~Missing("cer") /\ ~Missing("voice")
      BY <3>2, <3>4 DEF Written, Queued, CertSet
    <3> QED BY <2>1, <2>2, <2>3, <3>5
  <2>4. CASE queue[1] # "cloud" BY <2>1, <2>2, <2>4
  <2> QED BY <2>3, <2>4
<1>3. CASE FileFails BY <1>3 DEF FileFails
<1>4. CASE ReadSerial BY <1>4 DEF ReadSerial, In
<1>5. CASE Mount BY <1>5 DEF Mount, MountsToFormat, MountsToUse, RemovesErrorFile, In
<1>6. CASE FormatBegins BY <1>6 DEF FormatBegins, In
<1>7. CASE FormatEnds BY <1>7 DEF FormatEnds
<1>8. CASE FormatFails BY <1>8 DEF FormatFails
<1>9. CASE VersionDone BY <1>9 DEF VersionDone, Done, Begins
<1>10. CASE AtcaInit BY <1>10 DEF AtcaInit, Done, Begins
<1>11. CASE AtcaFails BY <1>11 DEF AtcaFails, Done, Begins
<1>12. CASE SerialDone BY <1>12 DEF SerialDone, Done, Begins
<1>13. CASE CertsDone BY <1>13 DEF CertsDone, Done, Begins
<1>14. CASE KeysDone BY <1>14 DEF KeysDone, Done, Begins
<1>15. CASE ConfigDone BY <1>15 DEF ConfigDone, Done, Begins
<1>16. CASE ConfigValid BY <1>16 DEF ConfigValid, Done, Begins
<1>17. CASE ConfigInvalid BY <1>17 DEF ConfigInvalid, Done, Begins
<1>18. CASE ConfigNotOpened BY <1>18 DEF ConfigNotOpened, Done, Begins
<1>19. CASE CloudInvalid BY <1>19 DEF CloudInvalid, Done, Begins
<1>20. CASE CloudValid BY <1>20 DEF CloudValid, Done, Begins
<1>21. CASE CloudNotOpened BY <1>21 DEF CloudNotOpened, Done, Begins
<1>22. CASE WriteError BY <1>22 DEF WriteError, Done, Begins
<1>23. CASE ConnectUsb BY <1>23 DEF ConnectUsb, In
<1>24. CASE MsdPowerLoss BY <1>24 DEF MsdPowerLoss, MsdRestart
<1>25. CASE MsdCrash BY <1>25 DEF MsdCrash, Done, MsdRestart
<1>26. CASE UNCHANGED msdVars BY <1>26 DEF msdVars
<1> QED BY <1>1, <1>2, <1>3, <1>4, <1>5, <1>6, <1>7, <1>8, <1>9, <1>10, <1>11, <1>12, <1>13,
       <1>14, <1>15, <1>16, <1>17, <1>18, <1>19, <1>20, <1>21, <1>22, <1>23, <1>24, <1>25,
       <1>26 DEF MsdNext, MSD_APP_Tasks

LEMMA MsdInitInv == MsdInit => MsdInv /\ ResetInv
<1> SUFFICES ASSUME MsdInit PROVE MsdInv /\ ResetInv OBVIOUS
<1>1. PICK config \in Contents \ {"Empty", "Default"}, cloud \in {"Missing", "User"} :
         drive = [f \in Files |-> IF ~formatted THEN "Missing"
                                  ELSE IF f = "config" THEN config
                                  ELSE IF f = "cloud" THEN cloud ELSE "Default"]
  BY DEF MsdInit
<1>2. msd = "INIT" /\ phase = "Idle" /\ queue = <<>> /\ ~serialNumValid BY DEF MsdInit
<1>3. drive \in [Files -> Contents]
  <2>1. \A f \in Files : drive[f] \in Contents BY <1>1 DEF Contents
  <2> QED BY <1>1, <2>1
<1>4. losses \in 0 .. MaxLosses BY LossesAssumption DEF MsdInit
<1>5. MsdTypeOK BY <1>3, <1>4, ShortQueue DEF MsdInit, MsdTypeOK, States, Phases
<1>6. Control /\ Filled /\ ErrorFileFresh
  BY <1>2 DEF MsdInit, Control, Filled, ErrorFileFresh, Attached, Touching, FromAtca,
         FromSerial,
              FromCerts, FromKeys, FromConfig, Configured
<1>7. QueueSparesUser BY <1>2, ShortQueue DEF QueueSparesUser
<1>8. Present
  <2>1. Missing("cer") \/ Missing("voice") => Missing("cloud")
    BY <1>1, FilesHave DEF Missing
  <2> QED BY <1>2, <2>1 DEF Present, Reached, Attached, FromAtca, FromSerial, FromCerts,
                           FromKeys, FromConfig
<1>9. ResetInv
  BY <1>2 DEF ResetInv, QueueOfPhase, FreshFiles, RestoredFiles, Reached, Attached, FromAtca,
             FromSerial, FromCerts, FromKeys, FromConfig
<1> QED BY <1>5, <1>6, <1>7, <1>8, <1>9 DEF MsdInv, MsdBase

LEMMA MsdStepKeepsInv == MsdInv /\ ResetInv /\ [MsdNext]_msdVars => (MsdInv /\ ResetInv)'
<1> SUFFICES ASSUME MsdInv, ResetInv, [MsdNext]_msdVars PROVE (MsdInv /\ ResetInv)' OBVIOUS
<1> USE DEF MsdInv, MsdBase, ResetInv
<1>1. MsdBase'
  BY MsdTypeStep, ControlStep, FilledStep, ErrorFileStep, SparesStep
<1>2. Present'
  BY LastComesCloud, VersionStep, SerialStep, CertsStep, KeysStep, ConfigStep DEF Present
<1>3. RestoredFiles'
  BY VersionRestored, SerialRestored, CertsRestored, KeysRestored, ConfigRestored
     DEF RestoredFiles
<1>4. QueueOfPhase' /\ FreshFiles' BY QueueOfPhaseStep, FreshStep
<1> QED BY <1>1, <1>2, <1>3, <1>4

\* What MSD_APP_Tasks has written, reported and still to write, in every start and
\* after any number of losses of power.
THEOREM MsdInvariant == MsdSpec => [](MsdInv /\ ResetInv)
BY MsdInitInv, MsdStepKeepsInv, PTL DEF MsdSpec

LEMMA InvMakesErrorFileTruthful == MsdInv => ErrorFileTruthful
BY DEF MsdInv, MsdBase, ErrorFileFresh, ErrorFileTruthful, Attached

LEMMA RunningIdle == MsdInv /\ msd = "RUNNING" => phase = "Idle" /\ queue = <<>> /\ Attached
BY DEF MsdInv, MsdBase, MsdTypeOK, Control, Phases, Attached, Touching, FromAtca, FromSerial,
       FromCerts, FromKeys, FromConfig

LEMMA InvMakesNothingMissing == MsdInv => NothingMissing
<1> SUFFICES ASSUME MsdInv, msd = "RUNNING", Configured,
                    NEW f \in Files \ {"certKeys"}, Missing(f)
             PROVE  f = "version" /\ silent
  BY DEF NothingMissing
<1>1. queue = <<>> /\ Attached BY RunningIdle
<1>2. \A p : Reached(p) BY <1>1 DEF Reached
<1>3. /\ Written({"version"}) \/ silent
      /\ Written({"serial"}) /\ Written(CertSet) /\ Written({"slot0", "slot4"})
      /\ Written({"config"})
  BY <1>2 DEF MsdInv, Present, Configured
<1>4. \A g : ~Queued(g) BY <1>1 DEF Queued
<1>5. f \notin {"serial", "config", "slot0", "slot4"} \cup CertSet
  BY <1>3, <1>4 DEF Written
<1>6. f = "version" BY <1>5, FilesAre DEF AllFiles, CertSet
<1> QED BY <1>3, <1>4, <1>6 DEF Written

LEMMA InvMakesFactoryReset == MsdInv /\ ResetInv => FactoryReset
<1> SUFFICES ASSUME MsdInv, ResetInv, msd = "RUNNING", bootSwitch, errFile = "None", ~silent,
                    NEW f \in Files
             PROVE  drive[f] = "Default"
  BY DEF FactoryReset
<1>1. queue = <<>> /\ Attached BY RunningIdle
<1>2. Configured BY <1>1 DEF MsdInv, MsdBase, ErrorFileFresh
<1>3. \A p : Reached(p) BY <1>1, <1>2 DEF Reached
<1>4. /\ Restored({"version"}) /\ Restored({"serial"}) /\ Restored(CertSet)
      /\ Restored(KeySet) /\ Restored({"config"})
  BY <1>3 DEF ResetInv, RestoredFiles
<1>5. ~Queued(f) BY <1>1 DEF Queued
<1>6. f \in {"version", "serial", "config"} \cup CertSet \cup KeySet
  BY FilesAre DEF AllFiles, CertSet, KeySet
<1> QED BY <1>4, <1>5, <1>6 DEF Restored

\* A file of the user's that exists is changed by formatting only.
LEMMA KeptStep ==
    ASSUME MsdInv, [MsdNext]_msdVars, NEW f \in UserFiles,
           drive[f] # "Missing", ~open, drive'[f] # drive[f]
    PROVE  FormatBegins
<1> USE DEF storage, datastore
<1>1. ~OpenFile
  <2> SUFFICES ASSUME OpenFile PROVE FALSE OBVIOUS
  <2>1. /\ drive' = [drive EXCEPT ![queue[1]] = "Empty"] /\ drive \in [Files -> Contents]
        /\ 1 \in DOMAIN queue
    BY TailFacts DEF OpenFile, MsdInv, MsdBase, MsdTypeOK
  <2>2. f = queue[1] BY <2>1
  <2> QED BY <2>1, <2>2 DEF MsdInv, MsdBase, QueueSparesUser
<1>2. ~WriteFile BY DEF WriteFile
<1>3. ~FileFails BY DEF FileFails
<1>4. ~ReadSerial BY DEF ReadSerial, In
<1>5. ~Mount BY DEF Mount, MountsToFormat, MountsToUse, In
<1>6. ~FormatEnds BY DEF FormatEnds
<1>7. ~FormatFails BY DEF FormatFails
<1>8. ~VersionDone BY DEF VersionDone, Done, Begins
<1>9. ~AtcaInit BY DEF AtcaInit, Done, Begins
<1>10. ~AtcaFails BY DEF AtcaFails, Done, Begins
<1>11. ~SerialDone BY DEF SerialDone, Done, Begins
<1>12. ~CertsDone BY DEF CertsDone, Done, Begins
<1>13. ~KeysDone BY DEF KeysDone, Done, Begins
<1>14. ~ConfigDone BY DEF ConfigDone, Done, Begins
<1>15. ~ConfigValid BY DEF ConfigValid, Done, Begins
<1>16. ~ConfigInvalid BY DEF ConfigInvalid, Done, Begins
<1>17. ~ConfigNotOpened BY DEF ConfigNotOpened, Done, Begins
<1>18. ~CloudInvalid BY DEF CloudInvalid, Done, Begins
<1>19. ~CloudValid BY DEF CloudValid, Done, Begins
<1>20. ~CloudNotOpened BY DEF CloudNotOpened, Done, Begins
<1>21. ~WriteError BY DEF WriteError, Done, Begins
<1>22. ~ConnectUsb BY DEF ConnectUsb, In
<1>23. ~MsdPowerLoss BY DEF MsdPowerLoss, MsdRestart
<1>24. ~MsdCrash BY DEF MsdCrash, Done, MsdRestart
<1>25. ~UNCHANGED msdVars BY DEF msdVars
<1> QED BY <1>1, <1>2, <1>3, <1>4, <1>5, <1>6, <1>7, <1>8, <1>9, <1>10, <1>11, <1>12, <1>13,
       <1>14, <1>15, <1>16, <1>17, <1>18, <1>19, <1>20, <1>21, <1>22, <1>23, <1>24, <1>25 DEF
       MsdNext, MSD_APP_Tasks

\* ERROR.txt is there when the board lacks something, and only then.
THEOREM ErrorFileIsTruthful == MsdSpec => []ErrorFileTruthful
BY MsdInvariant, InvMakesErrorFileTruthful, PTL

\* A start that succeeds leaves no file missing but the keys that are not looked for.
THEOREM NoFileMissing == MsdSpec => []NothingMissing
BY MsdInvariant, InvMakesNothingMissing, PTL

\* A start with SW1 pressed restores every file.
THEOREM SwitchRestoresAll == MsdSpec => []FactoryReset
BY MsdInvariant, InvMakesFactoryReset, PTL

\* WIFI.CFG, cloud.json and the serial number are changed by formatting only.
THEOREM UserFilesAreKept == MsdSpec => UserFilesKept
<1>1. MsdInv /\ [MsdNext]_msdVars =>
        [\A f \in {"config", "cloud", "serial"} :
            drive[f] # "Missing" /\ ~open /\ drive'[f] # drive[f] => FormatBegins]_msdVars
  BY KeptStep DEF UserFiles
<1> QED BY <1>1, MsdInvariant, PTL DEF MsdSpec, UserFilesKept

-----------------------------------------------------------------------------
(* A start does not go round.                                                *)

LEMMA QueuesFit ==
    /\ Len(<<>>) = 0 /\ \A f : Len(<<f>>) = 1
    /\ Len(KeyFiles) = 3 /\ Len(CertQueue) \in {5, 6}
<1>1. Len(Append(CertFiles, "cloud")) = 6 BY DEF CertFiles
<1>2. Len(CertQueue) \in {5, 6} BY <1>1, FixedQueues DEF CertQueue
<1> QED BY <1>2, FixedQueues

\* What each state, and each function of it, has ahead of it.
StageTable ==
    /\ msd = "INIT" => StagesLeft = 14
    /\ msd = "WAIT_FS_MOUNT" => StagesLeft = 13
    /\ msd = "CLEAR_DRIVE" => StagesLeft = IF phase = "Format" THEN 11 ELSE 12
    /\ msd = "TOUCH_FILE" =>
         /\ phase = "Version" => StagesLeft = 10
         /\ phase = "Atca" => StagesLeft = 9
         /\ phase = "Serial" => StagesLeft = 8
         /\ phase = "Certs" => StagesLeft = 7
         /\ phase = "Keys" => StagesLeft = 6
         /\ phase = "WriteConfig" => StagesLeft = 5
         /\ phase = "ReadConfig" => StagesLeft = 4
         /\ phase = "ReadCloud" => StagesLeft = 3
         /\ phase = "Error" => StagesLeft = 2
    /\ msd = "CONNECT_USB" => StagesLeft = 1
    /\ msd \in {"RUNNING", "ERROR"} => StagesLeft = 0

LEMMA StageTableOK == StageTable
BY DEF StageTable, StagesLeft

\* A later stage, whatever files it begins with, is closer to the end.
LEMMA StageShortens ==
    ASSUME NEW a \in Nat, NEW b \in Nat, b < a,
           NEW m \in Nat, NEW n \in 0 .. 6,
           NEW o \in 0 .. 1, NEW p \in 0 .. 1, o <= m, p <= n
    PROVE  13 * b + 2 * n - p \in 0 .. (13 * a + 2 * m - o) - 1
OBVIOUS

LEMMA OpenCounts ==
    ASSUME MsdTypeOK, Control
    PROVE  /\ Len(queue) \in Nat /\ open \in BOOLEAN
           /\ open => Len(queue) > 0
           /\ (IF open THEN 1 ELSE 0) \in 0 .. 1
           /\ (IF open THEN 1 ELSE 0) <= Len(queue)
BY DEF MsdTypeOK, Control

\* Every step but opening and writing a file leads to a later stage.
LEMMA StageFalls ==
    ASSUME MsdTypeOK, Control, MSD_APP_Tasks, ~OpenFile, ~WriteFile
    PROVE  /\ StagesLeft \in Nat /\ StagesLeft' \in Nat /\ StagesLeft' < StagesLeft
           /\ Len(queue') \in 0 .. 6
<1> USE DEF Touching, FromAtca, FromSerial, FromCerts, FromKeys, FromConfig
<1>1. StageTable /\ StageTable' BY StageTableOK DEF StageTable, StagesLeft
<1>2. /\ phase \in Touching <=> msd = "TOUCH_FILE"
      /\ phase = "Format" => msd = "CLEAR_DRIVE"
      /\ phase \in {"Idle", "Format", "Atca", "ReadConfig", "ReadCloud", "Error"} => queue = <<>>
      /\ phase \in Touching \cup {"Idle", "Format"}
  BY DEF Control, MsdTypeOK, Phases
<1> USE <1>1, <1>2, QueuesFit DEF StageTable, Done, Begins, In
<1>3. CASE FileFails BY <1>3 DEF FileFails
<1>4. CASE ReadSerial BY <1>4 DEF ReadSerial
<1>5. CASE Mount BY <1>5 DEF Mount, MountsToFormat, MountsToUse
<1>6. CASE FormatBegins BY <1>6 DEF FormatBegins
<1>7. CASE FormatEnds BY <1>7 DEF FormatEnds
<1>8. CASE FormatFails BY <1>8 DEF FormatFails
<1>9. CASE VersionDone BY <1>9 DEF VersionDone
<1>10. CASE AtcaInit BY <1>10 DEF AtcaInit
<1>11. CASE AtcaFails BY <1>11 DEF AtcaFails
<1>12. CASE SerialDone BY <1>12 DEF SerialDone
<1>13. CASE CertsDone BY <1>13 DEF CertsDone
<1>14. CASE KeysDone BY <1>14 DEF KeysDone
<1>15. CASE ConfigDone BY <1>15 DEF ConfigDone
<1>16. CASE ConfigValid \/ ConfigInvalid \/ ConfigNotOpened
  BY <1>16 DEF ConfigValid, ConfigInvalid, ConfigNotOpened
<1>17. CASE CloudInvalid \/ CloudValid \/ CloudNotOpened
  BY <1>17 DEF CloudInvalid, CloudValid, CloudNotOpened
<1>18. CASE WriteError BY <1>18 DEF WriteError
<1>19. CASE ConnectUsb BY <1>19 DEF ConnectUsb
<1> QED BY <1>3, <1>4, <1>5, <1>6, <1>7, <1>8, <1>9, <1>10, <1>11, <1>12, <1>13, <1>14, <1>15,
       <1>16, <1>17, <1>18, <1>19 DEF MSD_APP_Tasks

\* Within a stage a file is opened, then written and taken off the queue.
LEMMA FileShortens ==
    ASSUME MsdTypeOK, Control, OpenFile \/ WriteFile
    PROVE  StepsLeft' \in 0 .. StepsLeft - 1
<1>1. Len(queue) \in Nat \ {0} /\ Len(Tail(queue)) = Len(queue) - 1
  BY TailFacts DEF MsdTypeOK, Control, OpenFile, WriteFile
<1>2. UNCHANGED <<msd, phase>> BY DEF OpenFile, WriteFile
<1>3. StagesLeft' = StagesLeft BY <1>2 DEF StagesLeft
<1>4. StagesLeft \in Nat
  BY StageTableOK DEF StageTable, MsdTypeOK, Control, States, Phases, Touching, FromAtca,
     FromSerial, FromCerts, FromKeys, FromConfig
<1>5. CASE OpenFile
  <2>1. ~open /\ open' /\ queue' = queue BY <1>5 DEF OpenFile
  <2> QED BY <1>1, <1>3, <1>4, <2>1 DEF StepsLeft
<1>6. CASE WriteFile
  <2>1. open /\ ~open' /\ queue' = Tail(queue) BY <1>6 DEF WriteFile
  <2> QED BY <1>1, <1>3, <1>4, <2>1 DEF StepsLeft
<1> QED BY <1>5, <1>6

\* Every step of MSD_APP_Tasks leaves less of the start.
LEMMA StepShortens ==
    ASSUME MsdInv, MsdInv', MSD_APP_Tasks
    PROVE  StepsLeft' \in 0 .. StepsLeft - 1
<1>1. MsdTypeOK /\ Control /\ MsdTypeOK' /\ Control' BY DEF MsdInv, MsdBase
<1>2. CASE OpenFile \/ WriteFile BY <1>1, <1>2, FileShortens
<1>3. CASE ~OpenFile /\ ~WriteFile
  <2> DEFINE o == IF open THEN 1 ELSE 0
  <2>1. /\ StagesLeft \in Nat /\ StagesLeft' \in Nat /\ StagesLeft' < StagesLeft
        /\ Len(queue') \in 0 .. 6
    BY <1>1, <1>3, StageFalls
  <2>2. Len(queue) \in Nat /\ o \in 0 .. 1 /\ o <= Len(queue)
    BY <1>1, OpenCounts
  <2>3. o' \in 0 .. 1 /\ o' <= Len(queue')
    BY <1>1 DEF MsdTypeOK, Control
  <2>4. StepsLeft = 13 * StagesLeft + 2 * Len(queue) - o
    BY DEF StepsLeft
  <2>5. StepsLeft' = 13 * StagesLeft' + 2 * Len(queue') - o'
    BY DEF StepsLeft
  <2> HIDE DEF o
  <2> QED BY <2>1, <2>2, <2>3, <2>4, <2>5, StageShortens
<1> QED BY <1>2, <1>3

\* A start does not go round, whatever fails on the way: it ends after a bounded number of
\* steps, and only a loss of power or a crash begins it anew.
THEOREM StartAlwaysEnds == MsdSpec => StartEnds
<1>1. ASSUME MsdInv, MsdInv', [MsdNext]_msdVars
      PROVE  [msd' = "INIT" \/ StepsLeft' \in 0 .. StepsLeft - 1]_msdVars
  <2>1. CASE MSD_APP_Tasks BY <1>1, <2>1, StepShortens
  <2>2. CASE MsdPowerLoss \/ MsdCrash BY <2>2 DEF MsdPowerLoss, MsdCrash, MsdRestart
  <2> QED BY <1>1, <2>1, <2>2 DEF MsdNext
<1> QED BY <1>1, MsdInvariant, PTL DEF MsdSpec, StartEnds

=============================================================================
