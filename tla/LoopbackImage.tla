--------------------------- MODULE LoopbackImage ---------------------------
(***************************************************************************)
(* The privileged helper: it initialises a new loopback image (create,     *)
(* attach, inspect, format, inspect, marker last), mounts the image its    *)
(* marker names, and grows it.  Each command may fail and the helper may   *)
(* be killed before any of them; the administrator attaches, detaches and  *)
(* replaces things of their own.  losetup, mkfs, blkid, mount, truncate    *)
(* and btrfs are external commands.                                        *)
(***************************************************************************)
EXTENDS Integers, FiniteSets

CONSTANTS Device,      \* loop devices
          ImageSize,   \* image sizes
          MaxUuid,     \* bound on the filesystems made
          MaxImageFaults,   \* bound on the administrator's doings and reboots
          Unset

Image == "configured"  \* the image of the configuration
Foreign == "foreign"   \* some other image, with a filesystem of its own
Label == "ours"
TornMarker == [uuid |-> Unset, label |-> ""]

VARIABLES
  imageFile,    \* each image file: Unset, or its size and filesystem
  loop,    \* each loop device: Unset, or the file behind it and its capacity
  imageMarker,  \* Unset, Torn, or the identity it names
  mounted, \* Unset, or the device at the mount root and the identity it had
  helperStep, device, size,         \* the helper's operation
  uuids, imageFaults,
  wiped,   \* the filesystems that were formatted over
  rebound, \* did the device change under the helper after it was inspected?
  replaced \* did the administrator replace the configured image?

helper == <<helperStep, device, size>>
ghosts == <<wiped, rebound, replaced>>
imageVars == <<imageFile, loop, imageMarker, mounted, helper, uuids, imageFaults, ghosts>>

FilesystemIdentity(fs) == [uuid |-> fs.uuid, label |-> fs.label]
Backing(d) == IF loop[d] = Unset THEN Unset ELSE loop[d].path
\* What blkid reports on a device, or Unset.
InspectFilesystem(d) ==
  IF Backing(d) = Unset \/ imageFile[Backing(d)] = Unset THEN Unset ELSE imageFile[Backing(d)].fs

HelperSteps ==
  {"idle", "init attach", "init inspect", "init format", "init verify",
   "mount find", "grow find", "mount inspect", "grow inspect", "mount verify", "grow verify",
   "mount", "truncate", "capacity", "resize"}

\* Every variable has its type.
ImageTypeOK ==
  /\ DOMAIN imageFile = {Image, Foreign} /\ DOMAIN loop = Device
  /\ \A d \in Device : loop[d] # Unset => loop[d].path \in {Image, Foreign} /\ loop[d].capacity \in ImageSize
  /\ helperStep \in HelperSteps
  /\ device \in Device \cup {Unset} /\ uuids \in 0 .. MaxUuid /\ imageFaults \in 0 .. MaxImageFaults
  /\ rebound \in BOOLEAN /\ replaced \in BOOLEAN

ImageInit ==
  /\ imageFile = [p \in {Image, Foreign} |->
               IF p = Image THEN Unset
               ELSE [size |-> 2, fs |-> [uuid |-> 0, label |-> Label, size |-> 2]]]
  /\ loop = [d \in Device |-> Unset] /\ imageMarker = Unset /\ mounted = Unset
  /\ helperStep = "idle" /\ device = Unset /\ size = 1 /\ uuids = 0 /\ imageFaults = 0
  /\ wiped = {} /\ rebound = FALSE /\ replaced = FALSE

At(here, there) == helperStep = here /\ helperStep' = there
\* The operation ends, done or with an error.
EndHelper == helperStep' = "idle" /\ device' = Unset /\ size' = 1

-----------------------------------------------------------------------------
\* Fault: the marker of an earlier image is not looked at.
CreateImageAnyMarker(s) ==
  /\ At("idle", "init attach") /\ imageFile[Image] = Unset
  /\ imageFile' = [imageFile EXCEPT ![Image] = [size |-> s, fs |-> Unset]]
  /\ UNCHANGED <<loop, imageMarker, mounted, device, size, uuids, imageFaults, ghosts>>

\* Fault: an image that exists is taken for a new one.
CreateImageExisting(s) ==
  /\ At("idle", "init attach") /\ imageMarker = Unset
  /\ imageFile' = [imageFile EXCEPT ![Image] = IF @ = Unset THEN [size |-> s, fs |-> Unset] ELSE @]
  /\ UNCHANGED <<loop, imageMarker, mounted, device, size, uuids, imageFaults, ghosts>>

\* LoopbackInitializationConfig::new, then initialize_loopback_image.
CreateImage(s) ==
  /\ At("idle", "init attach") /\ imageFile[Image] = Unset /\ imageMarker = Unset
  /\ imageFile' = [imageFile EXCEPT ![Image] = [size |-> s, fs |-> Unset]]
  /\ UNCHANGED <<loop, imageMarker, mounted, device, size, uuids, imageFaults, ghosts>>

\* losetup --find --show --nooverlap: a device that has the file is reused.
AttachLoop(p) ==
  LET have == {d \in Device : Backing(d) = p} IN
  \E d \in (IF have # {} THEN have ELSE {e \in Device : loop[e] = Unset}) :
    /\ device' = d
    /\ loop' = IF have # {} THEN loop ELSE [loop EXCEPT ![d] = [path |-> p, capacity |-> imageFile[p].size]]

InitAttach ==
  /\ At("init attach", "init inspect") /\ imageFile[Image] # Unset /\ AttachLoop(Image)
  /\ UNCHANGED <<imageFile, imageMarker, mounted, size, uuids, imageFaults, ghosts>>

\* Fault: the file behind the device is not compared.
InitInspectAny ==
  /\ At("init inspect", "init format") /\ Backing(device) # Unset
  /\ UNCHANGED <<imageFile, loop, imageMarker, mounted, device, size, uuids, imageFaults, ghosts>>

InitInspect ==
  /\ At("init inspect", "init format") /\ Backing(device) = Image
  /\ UNCHANGED <<imageFile, loop, imageMarker, mounted, device, size, uuids, imageFaults, ghosts>>

\* mkfs.btrfs --force on the device.
FormatBtrfs ==
  /\ At("init format", "init verify") /\ Backing(device) # Unset /\ imageFile[Backing(device)] # Unset
  /\ uuids < MaxUuid /\ uuids' = uuids + 1
  /\ LET p == Backing(device) IN
     /\ wiped' = IF imageFile[p].fs = Unset THEN wiped ELSE wiped \cup {imageFile[p].fs.uuid}
     /\ imageFile' = [imageFile EXCEPT ![p].fs = [uuid |-> uuids', label |-> Label, size |-> loop[device].capacity]]
  /\ UNCHANGED <<loop, imageMarker, mounted, device, size, imageFaults, rebound, replaced>>

\* The filesystem is inspected and write_instance_marker makes a new file of
\* what was seen; a kill can leave a part of it, which cannot be read.
WriteInstanceMarker ==
  /\ helperStep = "init verify" /\ imageMarker = Unset
  /\ InspectFilesystem(device) # Unset /\ InspectFilesystem(device).label = Label
  /\ imageMarker' \in {TornMarker, FilesystemIdentity(InspectFilesystem(device))}
  /\ EndHelper /\ UNCHANGED <<imageFile, loop, mounted, uuids, imageFaults, ghosts>>

-----------------------------------------------------------------------------
\* read_instance_marker and PrivilegedExecutorConfig::new
ImageConfigured == imageMarker \notin {Unset, TornMarker} /\ imageFile[Image] # Unset

StartMount ==
  /\ At("idle", "mount find") /\ ImageConfigured /\ mounted = Unset
  /\ UNCHANGED <<imageFile, loop, imageMarker, mounted, device, size, uuids, imageFaults, ghosts>>

\* Fault: a smaller size is not refused.
StartGrowAny(s) ==
  /\ At("idle", "grow find") /\ ImageConfigured /\ size' = s
  /\ UNCHANGED <<imageFile, loop, imageMarker, mounted, device, uuids, imageFaults, ghosts>>

StartGrow(s) ==
  /\ At("idle", "grow find") /\ ImageConfigured /\ s > imageFile[Image].size /\ size' = s
  /\ UNCHANGED <<imageFile, loop, imageMarker, mounted, device, uuids, imageFaults, ghosts>>

\* attach_or_reuse: one association is reused, two are refused, none is made.
AttachOrReuse(find, inspect, verify) ==
  LET matches == {d \in Device : Backing(d) = Image} IN
  /\ helperStep = find /\ imageFile[Image] # Unset
  /\ \/ Cardinality(matches) = 1 /\ device' \in matches /\ helperStep' = verify /\ UNCHANGED <<loop, size>>
     \/ matches = {} /\ AttachLoop(Image) /\ helperStep' = inspect /\ UNCHANGED size
     \/ Cardinality(matches) > 1 /\ EndHelper /\ UNCHANGED loop
  /\ UNCHANGED <<imageFile, imageMarker, mounted, uuids, imageFaults, ghosts>>

InspectLoopBacking(inspect, verify) ==
  /\ At(inspect, verify) /\ Backing(device) = Image
  /\ UNCHANGED <<imageFile, loop, imageMarker, mounted, device, size, uuids, imageFaults, ghosts>>

\* Fault: the identity is not compared with the marker.
VerifyLoopIdentityAny(verify, then) ==
  /\ At(verify, then) /\ InspectFilesystem(device) # Unset
  /\ UNCHANGED <<imageFile, loop, imageMarker, mounted, device, size, uuids, imageFaults, ghosts>>

VerifyLoopIdentity(verify, then) ==
  /\ At(verify, then)
  /\ InspectFilesystem(device) # Unset /\ FilesystemIdentity(InspectFilesystem(device)) = imageMarker
  /\ UNCHANGED <<imageFile, loop, imageMarker, mounted, device, size, uuids, imageFaults, ghosts>>

\* The kernel refuses a device too small for its filesystem.
Mount ==
  /\ helperStep = "mount" /\ mounted = Unset /\ InspectFilesystem(device) # Unset
  /\ InspectFilesystem(device).size <= loop[device].capacity
  /\ mounted' = [device |-> device, identity |-> FilesystemIdentity(InspectFilesystem(device))]
  /\ EndHelper /\ UNCHANGED <<imageFile, loop, imageMarker, uuids, imageFaults, ghosts>>

GrowImage ==
  /\ At("truncate", "capacity") /\ imageFile[Image] # Unset /\ imageFile' = [imageFile EXCEPT ![Image].size = size]
  /\ UNCHANGED <<loop, imageMarker, mounted, device, size, uuids, imageFaults, ghosts>>

RefreshLoopCapacity ==
  /\ At("capacity", "resize") /\ Backing(device) # Unset /\ imageFile[Backing(device)] # Unset
  /\ loop' = [loop EXCEPT ![device].capacity = imageFile[Backing(device)].size]
  /\ UNCHANGED <<imageFile, imageMarker, mounted, device, size, uuids, imageFaults, ghosts>>

\* btrfs filesystem resize max, at the mount root
ResizeFilesystem ==
  /\ helperStep = "resize" /\ mounted # Unset
  /\ imageFile' = [imageFile EXCEPT ![Backing(mounted.device)].fs.size = loop[mounted.device].capacity]
  /\ EndHelper /\ UNCHANGED <<loop, imageMarker, mounted, uuids, imageFaults, ghosts>>

\* Any command fails, a check refuses, or the helper is killed.
Fails == helperStep # "idle" /\ EndHelper /\ UNCHANGED <<imageFile, loop, imageMarker, mounted, uuids, imageFaults, ghosts>>

-----------------------------------------------------------------------------
\* The administrator; a mounted device is busy.
Busy(d) == mounted # Unset /\ mounted.device = d
Inspected == helperStep \in {"init format", "init verify", "mount verify", "grow verify",
                     "mount", "truncate", "capacity", "resize"}
Act == imageFaults < MaxImageFaults /\ imageFaults' = imageFaults + 1

Attach(d, p) ==
  /\ Act /\ ~Busy(d) /\ imageFile[p] # Unset
  /\ loop' = [loop EXCEPT ![d] = [path |-> p, capacity |-> imageFile[p].size]]
  /\ rebound' = (rebound \/ (Inspected /\ device = d))
  /\ UNCHANGED <<imageFile, imageMarker, mounted, helper, uuids, wiped, replaced>>

\* The configured image is lost, or another takes its place.
Replace ==
  /\ Act /\ helperStep = "idle" /\ mounted = Unset /\ imageFile[Image] # Unset
  /\ \A d \in Device : Backing(d) # Image
  /\ \/ imageFile' = [imageFile EXCEPT ![Image] = Unset] /\ UNCHANGED replaced
     \/ imageFile' = [imageFile EXCEPT ![Image] = imageFile[Foreign]] /\ replaced' = TRUE
  /\ UNCHANGED <<loop, imageMarker, mounted, helper, uuids, wiped, rebound>>

Unmount ==
  /\ helperStep = "idle" /\ mounted # Unset /\ mounted' = Unset
  /\ UNCHANGED <<imageFile, loop, imageMarker, helper, uuids, imageFaults, ghosts>>

Reboot ==
  /\ Act /\ loop' = [d \in Device |-> Unset] /\ mounted' = Unset /\ EndHelper
  /\ UNCHANGED <<imageFile, imageMarker, uuids, ghosts>>

ImageNext ==
  \/ \E s \in ImageSize : CreateImage(s) \/ StartGrow(s)
  \/ InitAttach \/ InitInspect \/ FormatBtrfs \/ WriteInstanceMarker \/ StartMount
  \/ AttachOrReuse("mount find", "mount inspect", "mount verify")
  \/ AttachOrReuse("grow find", "grow inspect", "grow verify")
  \/ InspectLoopBacking("mount inspect", "mount verify") \/ InspectLoopBacking("grow inspect", "grow verify")
  \/ VerifyLoopIdentity("mount verify", "mount") \/ VerifyLoopIdentity("grow verify", "truncate")
  \/ Mount \/ GrowImage \/ RefreshLoopCapacity \/ ResizeFilesystem \/ Fails
  \/ \E d \in Device, p \in {Image, Foreign} : Attach(d, p)
  \/ Replace \/ Unmount \/ Reboot

ImageSpec == ImageInit /\ [][ImageNext]_imageVars

-----------------------------------------------------------------------------
\* No filesystem is ever formatted over, by whatever retries and with
\* whatever other associations, unless the loop device is rebound between
\* its inspection and the format command.
NothingWiped == ~rebound => wiped = {}

\* A readable marker names the filesystem of the image beside it: it is
\* written last, and no second image is made while it is there.
MarkerTrue ==
  ImageConfigured /\ ~rebound /\ ~replaced => imageFile[Image].fs # Unset /\ FilesystemIdentity(imageFile[Image].fs) = imageMarker

\* What is mounted is what the marker names, also when the image was
\* replaced behind the helper's back.
MountedVerified == mounted # Unset /\ ~rebound => mounted.identity = imageMarker

\* The filesystem never outgrows its device, nor the device its file,
\* wherever growing stops.
GrownInOrder ==
  mounted # Unset =>
    LET p == Backing(mounted.device) IN
    imageFile[p].fs.size <= loop[mounted.device].capacity /\ loop[mounted.device].capacity <= imageFile[p].size

-----------------------------------------------------------------------------
(* The inductive invariant of these properties.                            *)

Filesystem == [uuid : Nat, label : {Label}, size : Nat]
ImageFile == [size : Nat, fs : Filesystem \cup {Unset}]
Association == [path : {Image, Foreign}, capacity : Nat]
Initializing == {"init attach", "init inspect", "init format", "init verify"}
Growing == {"grow find", "grow inspect", "grow verify", "truncate"}

Shapes ==
  /\ imageFile \in [{Image, Foreign} -> ImageFile \cup {Unset}] /\ loop \in [Device -> Association \cup {Unset}]
  /\ mounted # Unset => mounted.device \in Device /\ loop[mounted.device] # Unset
  /\ size \in Nat /\ uuids \in Nat

\* Every association has its file, which is not shorter.
Backed ==
  /\ imageFile[Foreign] # Unset
  /\ \A d \in Device : loop[d] # Unset =>
       imageFile[loop[d].path] # Unset /\ loop[d].capacity <= imageFile[loop[d].path].size

\* The operations of the helper exclude each other by the marker, and know their device.
Phases ==
  /\ helperStep # "idle" => imageFile[Image] # Unset
  /\ helperStep \in Initializing => imageMarker = Unset
  /\ helperStep \in Initializing \ {"init verify"} => imageFile[Image].fs = Unset
  /\ helperStep \notin Initializing \cup {"idle"} => imageMarker \notin {Unset, TornMarker}
  /\ helperStep \notin {"idle", "init attach", "mount find", "grow find"} => device \in Device
  /\ helperStep \in Growing => imageFile[Image].size <= size
  /\ Inspected /\ ~rebound => Backing(device) = Image
  /\ helperStep = "mount" /\ ~rebound => imageFile[Image].fs # Unset /\ FilesystemIdentity(imageFile[Image].fs) = imageMarker

MountedSound == mounted # Unset =>
  /\ imageMarker \notin {Unset, TornMarker} /\ imageFile[Backing(mounted.device)].fs # Unset
  /\ imageFile[Backing(mounted.device)].fs.size <= loop[mounted.device].capacity

ImageIInv ==
  /\ Shapes /\ Backed /\ Phases /\ MountedSound
  /\ NothingWiped /\ MarkerTrue /\ MountedVerified

\* Sizes are numbers, the other image's among them, and Unset is none of the things
\* it stands for the absence of.
LoopConstants ==
  /\ ImageSize \subseteq Nat /\ 2 \in ImageSize /\ MaxUuid \in Nat /\ MaxImageFaults \in Nat
  /\ Unset \notin ImageFile /\ Unset \notin Association
  /\ Unset \notin Filesystem /\ Unset \notin {Image, Foreign}
ASSUME LoopAssumption == LoopConstants

\* No filesystem is formatted over, the marker names the image's filesystem and
\* only that one is mounted, and filesystem, device and image grow in order.
ImageSafe == ImageTypeOK /\ NothingWiped /\ MarkerTrue /\ MountedVerified /\ GrownInOrder
=============================================================================
