------------------------------- MODULE MsdApp -------------------------------
(***************************************************************************)
(* MSD_APP (msd_app.c): it formats the drive if it must, writes the files  *)
(* that identify the board, reads WIFI.CFG and cloud.json into the         *)
(* datastore of the application and then hands the drive to the USB host.  *)
(*                                                                         *)
(* Power can fail at any step. A file that is being written is empty until *)
(* SYS_FS_FileSync, so the drive a board starts from can hold empty files. *)
(***************************************************************************)
EXTENDS Naturals, Sequences

CONSTANT MaxLosses      \* bound: how often power fails

ASSUME LossesAssumption == MaxLosses \in Nat

VARIABLES
    msd,               \* msd_appData.state
    phase,             \* the function MSD_APP_STATE_TOUCH_FILE is in
    queue,             \* the files that function has still to write
    open,              \* the first of them is open for writing
    drive,             \* what each file holds
    formatted,         \* the drive has a file system
    errFile,           \* ERROR.txt: none, one of this start, one of an earlier start
    bootSwitch,        \* SW1 was pressed at the start
    serialNumValid, wifiCtrlValid, mqttConfigValid,  \* of app_controlData
    wifiCtrl,          \* app_controlData.wifiCtrl: whose configuration
    silent,            \* something failed that no error file is written for
    losses             \* what is left of the bound

storage  == <<drive, formatted, errFile>>
datastore == <<serialNumValid, wifiCtrlValid, mqttConfigValid, wifiCtrl>>
msdVars == <<msd, phase, queue, open, storage, bootSwitch, datastore, silent, losses>>

-----------------------------------------------------------------------------
(* The files                                                                 *)

\* In the order in which MSD_APP_Write_certs and MSD_APP_Write_keys write them;
\* "cer" is the device certificate in PEM format; "slot0" stands for the public keys of
\* the slots 0 to 3, "rootCert" for the root's and the signer's certificate, "certKeys"
\* for the public keys of the root, the signer and the device.
CertFiles == <<"cer", "rootCert", "deviceCert", "clickme", "voice">>
KeyFiles == <<"slot0", "slot4", "certKeys">>

Files == {"version", "serial", "cloud", "config"}
             \cup {CertFiles[i] : i \in DOMAIN CertFiles}
             \cup {KeyFiles[i] : i \in DOMAIN KeyFiles}

\* "Default" is what the firmware writes. The user can replace WIFI.CFG and cloud.json:
\* "User" stands for text that is found valid or not when it is read, "Rejected" for a
\* WIFI.CFG whose password is too short, "NoComma" for one without a comma.
Contents == {"Missing", "Empty", "Default", "User", "Rejected", "NoComma"}

Missing(f) == drive[f] = "Missing"

\* What MSD_APP_Write_certs looks for.
CertsNeeded ==
    \E f \in {"deviceCert", "rootCert", "clickme", "cloud"} : Missing(f)

\* Variant: cloud.json comes first.
CertQueueCloudFirst == IF Missing("cloud") THEN <<"cloud">> \o CertFiles ELSE CertFiles

CertQueue == IF Missing("cloud") THEN Append(CertFiles, "cloud") ELSE CertFiles

\* What MSD_APP_Write_keys looks for: the certificates in place of the last three keys.
KeysNeeded ==
    \E f \in {"slot0", "slot4", "rootCert", "deviceCert", "clickme"} :
        Missing(f)

-----------------------------------------------------------------------------
States == {"INIT", "WAIT_FS_MOUNT", "CLEAR_DRIVE", "TOUCH_FILE", "CONNECT_USB", "RUNNING", "ERROR"}

Phases == {"Idle", "Format", "Version", "Atca", "Serial", "Certs", "Keys", "WriteConfig",
           "ReadConfig", "ReadCloud", "Error"}

MsdTypeOK ==
    /\ msd \in States /\ phase \in Phases
    /\ queue \in Seq(Files) /\ open \in BOOLEAN
    /\ drive \in [Files -> Contents] /\ formatted \in BOOLEAN
    /\ errFile \in {"None", "New", "Old"}
    /\ bootSwitch \in BOOLEAN
    /\ serialNumValid \in BOOLEAN /\ wifiCtrlValid \in BOOLEAN /\ mqttConfigValid \in BOOLEAN
    /\ wifiCtrl \in {"None", "Default", "User", "Rejected"}
    /\ silent \in BOOLEAN /\ losses \in 0 .. MaxLosses

\* A board as it is bought, or one in use, whose user has replaced or deleted files:
\* what the user left as it was stands as "User" too.
MsdInit ==
    /\ msd = "INIT" /\ phase = "Idle" /\ queue = <<>> /\ open = FALSE
    /\ formatted \in BOOLEAN
    /\ \E config \in Contents \ {"Empty", "Default"}, cloud \in {"Missing", "User"} :
         drive = [f \in Files |-> IF ~formatted THEN "Missing"
                                  ELSE IF f = "config" THEN config
                                  ELSE IF f = "cloud" THEN cloud ELSE "Default"]
    /\ errFile = "None" /\ bootSwitch \in BOOLEAN
    /\ serialNumValid = FALSE /\ wifiCtrlValid = FALSE /\ mqttConfigValid = FALSE
    /\ wifiCtrl = "None" /\ silent = FALSE /\ losses = MaxLosses

-----------------------------------------------------------------------------
(* write_file, and the same sequence in the other functions                  *)

\* SYS_FS_FileOpen for writing empties or creates the file ...
OpenFile ==
    /\ queue # <<>> /\ ~open
    /\ open' = TRUE /\ drive' = [drive EXCEPT ![Head(queue)] = "Empty"]
    /\ UNCHANGED <<msd, phase, queue, formatted, errFile, bootSwitch, datastore, silent, losses>>

\* ... and with SYS_FS_FileSync it is complete.
WriteFile ==
    /\ open /\ open' = FALSE
    /\ drive' = [drive EXCEPT ![Head(queue)] = "Default"]
    /\ queue' = Tail(queue)
    /\ UNCHANGED <<msd, phase, formatted, errFile, bootSwitch, datastore, silent, losses>>

\* Variant: a file that cannot be opened or written is tried again.
FileFailsRetries ==
    /\ queue # <<>>
    /\ open' = FALSE
    /\ UNCHANGED <<msd, phase, queue, storage, bootSwitch, datastore, silent, losses>>

\* The file cannot be opened or written, or the ECC608 does not give what belongs in
\* it: the function returns and the error file is written. updateVerFile's result is
\* not looked at.
FileFails ==
    /\ queue # <<>>
    /\ open' = FALSE /\ queue' = <<>>
    /\ phase' = IF phase = "Version" THEN "Atca" ELSE "Error"
    /\ silent' = (silent \/ phase = "Version")
    /\ UNCHANGED <<msd, storage, bootSwitch, datastore, losses>>

-----------------------------------------------------------------------------
(* MSD_APP_Tasks                                                             *)

In(s) == msd = s /\ phase = "Idle"

\* MSD_APP_getDevSerial. Without a serial number the drive is left as it is.
ReadSerial ==
    /\ In("INIT")
    /\ \E ok \in BOOLEAN :
         /\ msd' = IF ok THEN "WAIT_FS_MOUNT" ELSE "CONNECT_USB"
         /\ silent' = ~ok
    /\ UNCHANGED <<phase, queue, open, storage, bootSwitch, datastore, losses>>

\* SYS_FS_FileDirectoryRemove of ERROR.txt may fail, and its result is not looked at.
RemovesErrorFile == errFile' \in {"None", errFile}

\* checkFSMount, then a drive that is formatted next ...
MountsToFormat ==
    /\ In("WAIT_FS_MOUNT") /\ msd' = "CLEAR_DRIVE" /\ RemovesErrorFile
    /\ UNCHANGED <<phase, queue, open, drive, formatted, bootSwitch, datastore, silent, losses>>

\* Variant: ERROR.txt is removed from a drive only that is formatted.
MountsToUseReporting ==
    /\ In("WAIT_FS_MOUNT") /\ msd' = "TOUCH_FILE"
    /\ phase' = "Version"
    /\ queue' = IF drive["version"] = "Default" THEN <<>> ELSE <<"version">>
    /\ UNCHANGED <<open, storage, bootSwitch, datastore, silent, losses>>

\* ... or one that is used as it is: updateVerFile comes next.
MountsToUse ==
    /\ In("WAIT_FS_MOUNT") /\ msd' = "TOUCH_FILE" /\ RemovesErrorFile
    /\ silent' = (errFile' # "None")
    /\ phase' = "Version"
    /\ queue' = IF drive["version"] = "Default" THEN <<>> ELSE <<"version">>
    /\ UNCHANGED <<open, drive, formatted, bootSwitch, datastore, losses>>

\* Variants: SW1 is not looked at; a drive without a file system is not mounted.
MountNoSwitch == IF ~formatted THEN MountsToFormat ELSE MountsToUse
MountNoFormat == formatted /\ IF bootSwitch THEN MountsToFormat ELSE MountsToUse

Mount == IF bootSwitch \/ ~formatted THEN MountsToFormat ELSE MountsToUse

\* SYS_FS_DriveFormat: while it is at work the drive holds nothing.
FormatBegins ==
    /\ In("CLEAR_DRIVE") /\ phase' = "Format"
    /\ formatted' = FALSE /\ drive' = [f \in Files |-> "Missing"] /\ errFile' = "None"
    /\ UNCHANGED <<msd, queue, open, bootSwitch, datastore, silent, losses>>

FormatEnds ==
    /\ phase = "Format" /\ formatted' = TRUE
    /\ msd' = "TOUCH_FILE" /\ phase' = "Version" /\ queue' = <<"version">>
    /\ UNCHANGED <<open, drive, errFile, bootSwitch, datastore, silent, losses>>

FormatFails ==
    /\ phase = "Format" /\ msd' = "ERROR" /\ phase' = "Idle" /\ silent' = TRUE
    /\ UNCHANGED <<queue, open, storage, bootSwitch, datastore, losses>>

\* A function of MSD_APP_STATE_TOUCH_FILE has written its files: the next one begins.
Done(p) == phase = p /\ queue = <<>>
Begins(p, q) == phase' = p /\ queue' = q

VersionDone ==
    /\ Done("Version") /\ Begins("Atca", <<>>)
    /\ UNCHANGED <<msd, open, storage, bootSwitch, datastore, silent, losses>>

\* atcab_init, MSD_APP_Write_Serial.
AtcaInit ==
    /\ Done("Atca")
    /\ serialNumValid' = TRUE
    /\ Begins("Serial", IF Missing("serial") THEN <<"serial">> ELSE <<>>)
    /\ UNCHANGED <<msd, open, storage, bootSwitch, wifiCtrlValid, mqttConfigValid, wifiCtrl,
                   silent, losses>>

\* Without the ECC608 serial number, certificates and keys are passed over.
AtcaFails ==
    /\ Done("Atca") /\ silent' = TRUE
    /\ Begins("WriteConfig", IF Missing("config") THEN <<"config">> ELSE <<>>)
    /\ UNCHANGED <<msd, open, storage, bootSwitch, datastore, losses>>

SerialDone ==
    /\ Done("Serial") /\ Begins("Certs", IF CertsNeeded THEN CertQueue ELSE <<>>)
    /\ UNCHANGED <<msd, open, storage, bootSwitch, datastore, silent, losses>>

CertsDone ==
    /\ Done("Certs") /\ Begins("Keys", IF KeysNeeded THEN KeyFiles ELSE <<>>)
    /\ UNCHANGED <<msd, open, storage, bootSwitch, datastore, silent, losses>>

\* Variant: WIFI.CFG is written whether it exists or not.
KeysDoneRewrites ==
    /\ Done("Keys") /\ Begins("WriteConfig", <<"config">>)
    /\ UNCHANGED <<msd, open, storage, bootSwitch, datastore, silent, losses>>

\* MSD_APP_Write_Config.
KeysDone ==
    /\ Done("Keys")
    /\ Begins("WriteConfig", IF Missing("config") THEN <<"config">> ELSE <<>>)
    /\ UNCHANGED <<msd, open, storage, bootSwitch, datastore, silent, losses>>

ConfigDone ==
    /\ Done("WriteConfig") /\ Begins("ReadConfig", <<>>)
    /\ UNCHANGED <<msd, open, storage, bootSwitch, datastore, silent, losses>>

-----------------------------------------------------------------------------
(* MSD_APP_Read_Config, MSD_APP_Read_cloud_config                            *)

\* The configuration takes effect before cloud.json is read.
ConfigValid ==
    /\ Done("ReadConfig") /\ drive["config"] \in {"Default", "User", "Rejected"}
    /\ wifiCtrl' = drive["config"] /\ wifiCtrlValid' = TRUE
    /\ Begins("ReadCloud", <<>>)
    /\ UNCHANGED <<msd, open, storage, bootSwitch, serialNumValid, mqttConfigValid, silent, losses>>

\* Too short or without a valid mode. configString is not terminated (line 268): a
\* digit that happens to follow the mode makes a valid file invalid.
ConfigInvalid ==
    /\ Done("ReadConfig") /\ drive["config"] # "NoComma"
    /\ Begins("Error", <<>>)
    /\ UNCHANGED <<msd, open, storage, bootSwitch, datastore, silent, losses>>

\* The file cannot be opened: cloud.json is read all the same.
ConfigNotOpened ==
    /\ Done("ReadConfig") /\ silent' = TRUE
    /\ Begins("ReadCloud", <<>>)
    /\ UNCHANGED <<msd, open, storage, bootSwitch, datastore, losses>>

\* Variant: an error while cloud.json is read is not reported.
CloudInvalidQuietly ==
    /\ Done("ReadCloud")
    /\ msd' = "CONNECT_USB" /\ Begins("Idle", <<>>)
    /\ UNCHANGED <<open, storage, bootSwitch, datastore, silent, losses>>

\* Missing, invalid, or a valid file that cannot be read.
CloudInvalid ==
    /\ Done("ReadCloud")
    /\ Begins("Error", <<>>)
    /\ UNCHANGED <<msd, open, storage, bootSwitch, datastore, silent, losses>>

CloudValid ==
    /\ Done("ReadCloud") /\ drive["cloud"] \in {"Default", "User"}
    /\ mqttConfigValid' = TRUE
    /\ msd' = "CONNECT_USB" /\ Begins("Idle", <<>>)
    /\ UNCHANGED <<open, storage, bootSwitch, serialNumValid, wifiCtrlValid, wifiCtrl, silent,
                   losses>>

\* The file cannot be opened: that is no error.
CloudNotOpened ==
    /\ Done("ReadCloud") /\ silent' = TRUE
    /\ msd' = "CONNECT_USB" /\ Begins("Idle", <<>>)
    /\ UNCHANGED <<open, storage, bootSwitch, datastore, losses>>

\* MSD_APP_Write_errInfo, whose result is not looked at: what was there may stay.
WriteError ==
    /\ Done("Error")
    /\ errFile' \in {"New", errFile} /\ silent' = (silent \/ errFile' # "New")
    /\ msd' = "CONNECT_USB" /\ Begins("Idle", <<>>)
    /\ UNCHANGED <<open, drive, formatted, bootSwitch, datastore, losses>>

\* USB_DEVICE_Open is tried until it succeeds.
ConnectUsb ==
    /\ In("CONNECT_USB") /\ msd' = "RUNNING"
    /\ UNCHANGED <<phase, queue, open, storage, bootSwitch, datastore, silent, losses>>

MSD_APP_Tasks ==
    \/ OpenFile \/ WriteFile \/ FileFails
    \/ ReadSerial \/ Mount \/ FormatBegins \/ FormatEnds \/ FormatFails
    \/ VersionDone \/ AtcaInit \/ AtcaFails \/ SerialDone \/ CertsDone \/ KeysDone \/ ConfigDone
    \/ ConfigValid \/ ConfigInvalid \/ ConfigNotOpened
    \/ CloudInvalid \/ CloudValid \/ CloudNotOpened \/ WriteError \/ ConnectUsb

-----------------------------------------------------------------------------
(* Restarts                                                                  *)

\* The device starts again with the drive as it is: MSD_APP_Initialize,
\* APP_CONTROL_Initialize.
MsdRestart(pressed) ==
    /\ msd' = "INIT" /\ phase' = "Idle" /\ queue' = <<>> /\ open' = FALSE
    /\ bootSwitch' = pressed
    /\ serialNumValid' = FALSE /\ wifiCtrlValid' = FALSE /\ mqttConfigValid' = FALSE
    /\ wifiCtrl' = "None" /\ silent' = FALSE
    /\ errFile' = IF errFile = "None" THEN "None" ELSE "Old"
    /\ UNCHANGED <<drive, formatted>>

MsdPowerLoss ==
    /\ losses > 0 /\ losses' = losses - 1
    /\ \E pressed \in BOOLEAN : MsdRestart(pressed)

\* Without a comma in WIFI.CFG strtok leaves authMode NULL and atoi reads through it
\* (line 300): an exception, until the watchdog timer resets the device.
MsdCrash ==
    /\ Done("ReadConfig") /\ drive["config"] = "NoComma"
    /\ \E pressed \in BOOLEAN : MsdRestart(pressed)
    /\ UNCHANGED losses

MsdNext == MSD_APP_Tasks \/ MsdPowerLoss \/ MsdCrash

MsdSpec == MsdInit /\ [][MsdNext]_msdVars

-----------------------------------------------------------------------------
(* Properties                                                                *)

Configured == serialNumValid /\ wifiCtrlValid /\ mqttConfigValid

\* ERROR.txt tells the user the truth once the drive is attached. It is there, written
\* in this start, if the board lacks something; and it is not there if the board has all
\* it needs, whatever an earlier start left. Each has the exceptions msd_app.c makes by
\* not looking: no error file is written for a serial number that cannot be read,
\* atcab_init, a configuration that cannot be opened and ERROR.txt itself, and an old one
\* stays if it cannot be removed (line 733).
ErrorFileTruthful ==
    msd = "RUNNING" =>
        IF Configured THEN errFile = "None" \/ (errFile = "Old" /\ silent)
        ELSE errFile = "New" \/ silent

\* WIFI.CFG, cloud.json and the serial number, once on the drive, outlive every
\* restart and loss of power: only formatting changes them. The other side of it is
\* that an empty one is never repaired.
UserFilesKept ==
    [][\A f \in {"config", "cloud", "serial"} :
          drive[f] # "Missing" /\ ~open /\ drive'[f] # drive[f] => FormatBegins]_msdVars

\* A start that succeeds leaves no file missing, wherever power failed before, except
\* the three keys MSD_APP_Write_keys does not look for (msd_app.c:547-549): the
\* last file that is written is cloud.json, which MSD_APP_Write_certs looks for.
NothingMissing ==
    msd = "RUNNING" /\ Configured
        => \A f \in Files \ {"certKeys"} :
             Missing(f) => f = "version" /\ silent

\* README.md:319-325: a start with SW1 pressed restores every file, unless something
\* fails in it.
FactoryReset ==
    msd = "RUNNING" /\ bootSwitch /\ errFile = "None" /\ ~silent
        => \A f \in Files : drive[f] = "Default"

\* What is still ahead of a start: states and functions, ...
StagesLeft ==
    CASE msd = "INIT" -> 14
      [] msd = "WAIT_FS_MOUNT" -> 13
      [] msd = "CLEAR_DRIVE" -> IF phase = "Format" THEN 11 ELSE 12
      [] msd = "TOUCH_FILE" ->
           [Version |-> 10, Atca |-> 9, Serial |-> 8, Certs |-> 7, Keys |-> 6,
            WriteConfig |-> 5, ReadConfig |-> 4, ReadCloud |-> 3, Error |-> 2][phase]
      [] msd = "CONNECT_USB" -> 1
      [] OTHER -> 0

\* ... and in each of them up to six files that are opened and written.
StepsLeft == 13 * StagesLeft + 2 * Len(queue) - (IF open THEN 1 ELSE 0)

\* Whatever fails on the way, and whatever the files hold, a start does not go
\* round: every step but a restart leaves less ahead of it, so that it reaches its end,
\* with the drive attached or in MSD_APP_STATE_ERROR, after at most StepsLeft steps.
StartEnds == [][msd' = "INIT" \/ StepsLeft' \in 0 .. StepsLeft - 1]_msdVars

\* However often power failed, and whatever the files hold, the user gets at the drive
\* again and again, unless formatting fails or WIFI.CFG has no comma. Mounting the drive
\* and opening the USB device, which the code tries until they succeed, are taken to.
UsbAttaches == []<>(msd \in {"RUNNING", "ERROR"} \/ drive["config"] = "NoComma")

=============================================================================
