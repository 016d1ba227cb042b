--------------------------- MODULE ImageMigration ---------------------------
(***************************************************************************)
(* The subcommand --migrate-images (startup/cli.rs), that moves the        *)
(* pictures an image hoster has to local storage, next to a server that    *)
(* deletes pictures.                                                       *)
(***************************************************************************)
EXTENDS FiniteSets

CONSTANT Legacy  \* the pictures the hoster has

VARIABLES
    rows,       \* the pictures with a row in table image
    url,        \* those of them whose column url is set
    files,      \* the pictures with a file in the image directory
    migration   \* the pictures to do, the one at work and where it is

migrationVars == <<rows, url, files, migration>>

NoPicture == "none"
Migrating(pc, todo, image) == [pc |-> pc, todo |-> todo, image |-> image]
NoMigration == Migrating("off", {}, NoPicture)

MigrationInit ==
    /\ rows = Legacy
    /\ url = Legacy
    /\ files = {}
    /\ migration = NoMigration

\* The statement sees the table as it is now, one picture is done after the other.
SelectImages ==
    /\ migration = NoMigration
    /\ migration' = Migrating("next", url, NoPicture)
    /\ UNCHANGED <<rows, url, files>>

Download(i) ==
    /\ migration.pc = "next" /\ i \in migration.todo
    /\ migration' = Migrating("save_image", migration.todo \ {i}, i)
    /\ UNCHANGED <<rows, url, files>>

NextImage == migration' = Migrating("next", migration.todo, NoPicture)

\* Mutant: the row is updated although the picture could not be saved.
SaveOrGoOn ==
    /\ migration.pc = "save_image"
    /\ files' \in {files, files \cup {migration.image}}
    /\ migration' = Migrating("update_row", migration.todo, migration.image)
    /\ UNCHANGED <<rows, url>>

SaveMigratedImage ==
    /\ migration.pc = "save_image"
    /\ files' = files \cup {migration.image}
    /\ migration' = Migrating("update_row", migration.todo, migration.image)
    /\ UNCHANGED <<rows, url>>

DropUrl ==
    /\ migration.pc = "update_row"
    /\ url' = url \ {migration.image}
    /\ NextImage
    /\ UNCHANGED <<rows, files>>

\* The hoster, the picture, the disk or the database: the next one is tried.
MigrateImageFails ==
    /\ migration.image # NoPicture
    /\ NextImage
    /\ UNCHANGED <<rows, url, files>>

MigrationDone ==
    /\ migration.pc = "next" /\ migration.todo = {}
    /\ migration' = NoMigration
    /\ UNCHANGED <<rows, url, files>>

\* The process of the subcommand is killed.
MigrationKilled ==
    /\ migration # NoMigration
    /\ migration' = NoMigration
    /\ UNCHANGED <<rows, url, files>>

MigrationStep ==
    \/ SelectImages
    \/ \E i \in Legacy : Download(i)
    \/ SaveMigratedImage \/ DropUrl \/ MigrateImageFails \/ MigrationDone
    \/ MigrationKilled

(* delete_image of the server **********************************************)

DeleteImageRow(i) ==
    /\ rows' = rows \ {i}
    /\ url' = url \ {i}
    /\ UNCHANGED <<files, migration>>

DeleteImageFile(i) ==
    /\ files' = files \ {i}
    /\ UNCHANGED <<rows, url, migration>>

-----------------------------------------------------------------------------
(* Properties                                                              *)

\* Wherever a migration fails or is killed, and whatever is deleted meanwhile:
\* a picture that is still known has its file here or its url.
NoPictureIsLost == rows \subseteq url \cup files
=============================================================================
