------------------------------ MODULE Commands ------------------------------
(***************************************************************************)
(* The commands of the desktop app and of the command line client, as far  *)
(* as the vault is concerned: which requests can fail, which MLS messages  *)
(* are made, in which order, and when the account is saved.                *)
(*                                                                         *)
(* Steps of a command:                                                     *)
(*   "net"   a request, upload or transaction whose failure ends it,       *)
(*   "send"  an MLS message or commit whose failure ends it,               *)
(*   "try"   an MLS message or commit whose failure does not.              *)
(* Requests whose failure is ignored, input checks and work on the local   *)
(* store are no steps: neither the ratchet nor the save depends on them.   *)
(* Commands of one kind that stand next to each other in the source share  *)
(* a definition.                                                           *)
(***************************************************************************)
EXTENDS Naturals, Sequences

Script(steps, save, facade) == [steps |-> steps, save |-> save, facade |-> facade]

\* A desktop command takes the `one` lock; a `?` on the way leaves without
\* saving.  Some are saved when at least one message got through.
Saved(steps)    == Script(steps, "ok", TRUE)
SavedSent(steps) == Script(steps, "sent", TRUE)
Unsaved(steps)  == Script(steps, "never", TRUE)

\* A `one` command of the client: open, dispatch, save whatever the outcome.
Dispatched(steps) == Script(steps, "always", TRUE)

\* The older commands of the client, without the facade and its store.
Persisted(steps) == Script(steps, "always", FALSE)
Direct(steps)    == Script(steps, "ok", FALSE)
Keyed(steps)     == Script(steps, "never", FALSE)

-----------------------------------------------------------------------------
(* Desktop: people, profiles.                                              *)

people_resolve    == Unsaved(<<"net">>)
people_request    == Saved(<<"net", "send">>)
people_respond    == Saved(<<"net", "send">>)
people_edit       == Unsaved(<<>>)
people_follow     == Saved(<<"net">>)
people_list       == Unsaved(<<>>)
people_send_card  == Saved(<<"net", "send">>)
people_card_of    == Unsaved(<<>>)
people_username_of == Unsaved(<<"net">>)
profile_of        == Unsaved(<<"net">>)
profile_save      == Saved(<<"net">>)
profile_upload_image == Unsaved(<<"net">>)
profile_timeline  == Unsaved(<<>>)

(* Desktop: mail.                                                          *)

mail_lists        == Unsaved(<<>>)
mail_read_mark    == Unsaved(<<"try">>)
mail_edit         == Unsaved(<<>>)
mail_settings     == Unsaved(<<>>)
mail_resolve_recipients == Unsaved(<<>>)
mail_drafts       == Unsaved(<<>>)
mail_attach_file  == Saved(<<"net">>)
mail_attach_bytes == Saved(<<"net">>)
mail_attach_drive == Saved(<<"net", "send">>)
mail_draft_remove_attachment == Unsaved(<<>>)
mail_compose      == SavedSent(<<"net", "try", "try">>)
mail_attachment_files == Unsaved(<<"net">>)
mail_attachments  == Unsaved(<<>>)

(* Desktop: drive.                                                         *)

drive_lists       == Unsaved(<<>>)
drive_availability == Unsaved(<<"net">>)
drive_details     == Unsaved(<<>>)
drive_mkdir       == Unsaved(<<>>)
drive_upload      == Saved(<<"net">>)
drive_upload_bytes == Saved(<<"net">>)
drive_update      == Saved(<<"net", "try">>)
drive_download    == Unsaved(<<"net">>)
drive_open        == Unsaved(<<"net">>)
drive_edit        == Unsaved(<<>>)
drive_rekey       == Saved(<<"net", "try", "net", "try">>)
drive_rekey_all   == Saved(<<"net", "try", "net", "try", "net", "try">>)
drive_commit      == Saved(<<"net", "try">>)
drive_share       == Saved(<<"net", "send">>)
drive_revoke      == Saved(<<"try">>)
drive_shares      == Unsaved(<<>>)
drive_shared_files == Unsaved(<<"net">>)
drive_shared_save == Unsaved(<<>>)
drive_shared_folder == Unsaved(<<"net">>)

(* Desktop: public feed, walls and circles.                                *)

feed_pages        == Unsaved(<<>>)
feed_explore      == Unsaved(<<"net">>)
feed_thread       == Unsaved(<<>>)
feed_post         == Saved(<<"net", "net">>)
feed_post_media   == Saved(<<"net", "net">>)
story_create      == Saved(<<"net", "net">>)
stories           == Unsaved(<<>>)
feed_interact     == Saved(<<"net">>)
feed_refresh      == Unsaved(<<"net">>)
feed_profile_update == Saved(<<"net", "net">>)
feed_media        == Unsaved(<<"net">>)
circles_members   == Saved(<<"net", "send">>)
circles_leave_group == Saved(<<"send">>)
circles_publish   == Saved(<<"net", "send">>)
circles_read      == Unsaved(<<>>)
circles_media_fetch == Unsaved(<<"net">>)
hashwall_pages    == Unsaved(<<"net">>)
walls_create      == Saved(<<"net">>)
walls_read        == Unsaved(<<"net">>)
people_cached     == Unsaved(<<"net">>)
profile_me        == Unsaved(<<>>)
network_lists     == Unsaved(<<"net">>)

(* Desktop: spaces and chats.                                              *)

spaces_open       == Saved(<<"net", "send">>)
spaces_publish    == Saved(<<"net">>)
spaces_directory  == Unsaved(<<"net">>)
spaces_read       == Unsaved(<<>>)
spaces_event      == Saved(<<"net", "send">>)
spaces_chat_open  == Unsaved(<<>>)
spaces_mail       == SavedSent(<<"net", "try">>)
spaces_drive_files == Unsaved(<<"net">>)
spaces_drive_save == Unsaved(<<>>)
chat_list         == Unsaved(<<>>)
chat_open         == Saved(<<"net">>)
chat_create_group == Saved(<<"net">>)
chat_add_member   == Saved(<<"net", "send">>)
chat_leave        == Saved(<<"try">>)
chat_text         == Saved(<<"send">>)
chat_send_media   == Saved(<<"net", "send">>)
chat_attachment_open == Unsaved(<<"net">>)
flush_queue       == SavedSent(<<"try", "try">>)

(* Desktop: devices, identity, earning.                                    *)

identity_status   == Unsaved(<<>>)
identity_register == Unsaved(<<"net", "net">>)
devices_list      == Unsaved(<<"net">>)
device_add        == Saved(<<"net", "try">>)
device_revoke     == Saved(<<"net">>)
devices_reconcile == Saved(<<"net", "try">>)
devices_bootstrap == Saved(<<"net", "send">>)
earn_read         == Unsaved(<<"net">>)
earn_tx           == Unsaved(<<"net">>)
ensure_operator_secret == Saved(<<>>)

DesktopCommands ==
  {people_resolve, people_request, people_respond, people_edit, people_follow, people_list,
   people_send_card, people_card_of, people_username_of, profile_of, profile_save,
   profile_upload_image, profile_timeline,
   mail_lists, mail_read_mark, mail_edit, mail_settings, mail_resolve_recipients, mail_drafts,
   mail_attach_file, mail_attach_bytes, mail_attach_drive, mail_draft_remove_attachment,
   mail_compose, mail_attachment_files, mail_attachments,
   drive_lists, drive_availability, drive_details, drive_mkdir, drive_upload, drive_upload_bytes,
   drive_update, drive_download, drive_open, drive_edit, drive_rekey, drive_rekey_all,
   drive_commit, drive_share, drive_revoke, drive_shares, drive_shared_files, drive_shared_save,
   drive_shared_folder,
   feed_pages, feed_explore, feed_thread, feed_post, feed_post_media, story_create, stories,
   feed_interact, feed_refresh, feed_profile_update, feed_media, circles_members,
   circles_leave_group, circles_publish, circles_read, circles_media_fetch, hashwall_pages,
   walls_create, walls_read, people_cached, profile_me, network_lists,
   spaces_open, spaces_publish, spaces_directory, spaces_read, spaces_event, spaces_chat_open,
   spaces_mail, spaces_drive_files, spaces_drive_save, chat_list, chat_open, chat_create_group,
   chat_add_member, chat_leave, chat_text, chat_send_media, chat_attachment_open, flush_queue,
   identity_status, identity_register, devices_list, device_add, device_revoke,
   devices_reconcile, devices_bootstrap, earn_read, earn_tx, ensure_operator_secret}

-----------------------------------------------------------------------------
(* Client, `one` family.                                                   *)

OneSync           == Dispatched(<<"try">>)
OneBackup         == Dispatched(<<>>)
OneBalance        == Dispatched(<<"net">>)
OneMailSend       == Dispatched(<<"net", "net", "try", "try">>)
OneMailList       == Dispatched(<<>>)
OneMailRead       == Dispatched(<<"try">>)
OneMailEdit       == Dispatched(<<>>)
OneMailAttachment == Dispatched(<<"net">>)
OneMailSettings   == Dispatched(<<>>)
OneDriveList      == Dispatched(<<>>)
OneDrivePut       == Dispatched(<<"net", "net", "try">>)
OneDriveGet       == Dispatched(<<"net">>)
OneDriveUpdate    == Dispatched(<<"net", "try", "net", "try">>)
OneDriveEdit      == Dispatched(<<"net", "try">>)
OneDriveVersions  == Dispatched(<<>>)
OneDriveRekey     == Dispatched(<<"net", "try", "net", "try", "net", "try">>)
OneDriveStar      == Dispatched(<<>>)
OneDriveShare     == Dispatched(<<"net", "send", "net", "try">>)
OneDriveRevoke    == Dispatched(<<"try", "net", "try">>)
OneDriveShares    == Dispatched(<<>>)
OneDriveGetShared == Dispatched(<<"net">>)
OneDriveCommit    == Dispatched(<<"net", "try">>)
OneDriveUsage     == Dispatched(<<>>)
OnePeopleResolve  == Dispatched(<<"net">>)
OnePeopleSend     == Dispatched(<<"net", "send">>)
OnePeopleEdit     == Dispatched(<<>>)
OnePeopleFollow   == Dispatched(<<"net">>)
OnePeopleList     == Dispatched(<<>>)
OnePeopleCard     == Dispatched(<<"net", "send">>)
OneFeed           == Dispatched(<<"net">>)
OneCircleEvent    == Dispatched(<<"net", "send">>)
OneCircleRead     == Dispatched(<<>>)
OneSpaceEvent     == Dispatched(<<"net", "send">>)
OneSpaceRead      == Dispatched(<<>>)
OneSpaceMail      == Dispatched(<<"net", "try">>)
OneDevices        == Dispatched(<<"net", "send">>)
OneProvider       == Dispatched(<<"net">>)
OneNetwork        == Dispatched(<<"net">>)

(* Client, older commands.                                                 *)

MessageSend       == Persisted(<<"net", "send">>)
MessageReceive    == Persisted(<<"net", "try">>)
GroupChange       == Persisted(<<"net", "send">>)
CallSignal        == Direct(<<"net", "send">>)
CallNodes         == Keyed(<<"net">>)
PublishEvent      == Direct(<<"net">>)
ReelPublish       == Direct(<<"net", "net">>)
PublishKeys       == Direct(<<"net">>)
IdentityShow      == Keyed(<<>>)
DeviceTx          == Keyed(<<"net", "net">>)
Register          == Keyed(<<"net", "net">>)
WalletCommand     == Keyed(<<"net">>)
BlobTransfer      == Keyed(<<"net">>)

ClientCommands ==
  {OneSync, OneBackup, OneBalance, OneMailSend, OneMailList, OneMailRead, OneMailEdit,
   OneMailAttachment, OneMailSettings, OneDriveList, OneDrivePut, OneDriveGet, OneDriveUpdate,
   OneDriveEdit, OneDriveVersions, OneDriveRekey, OneDriveStar, OneDriveShare, OneDriveRevoke,
   OneDriveShares, OneDriveGetShared, OneDriveCommit, OneDriveUsage, OnePeopleResolve,
   OnePeopleSend, OnePeopleEdit, OnePeopleFollow, OnePeopleList, OnePeopleCard, OneFeed,
   OneCircleEvent, OneCircleRead, OneSpaceEvent, OneSpaceRead, OneSpaceMail, OneDevices,
   OneProvider, OneNetwork, MessageSend, MessageReceive, GroupChange, CallSignal, CallNodes,
   PublishEvent, ReelPublish, PublishKeys, IdentityShow, DeviceTx, Register, WalletCommand,
   BlobTransfer}
=============================================================================
