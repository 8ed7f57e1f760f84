----------------------------- MODULE Migrations -----------------------------
(***************************************************************************)
(* Running the migrations: what `npm run migration:run` and                 *)
(* `migration:revert` do with the files of src/src/migrations (the executor *)
(* is TypeORM's, modelled from the interface the files implement).  The     *)
(* pending migrations run in the order of their timestamps; when up() has   *)
(* returned, the migration is recorded.  MySQL commits with every ALTER, so *)
(* a process that dies leaves the statements it had issued, and the next    *)
(* run starts the same up() again from its first line.  A down() that fails *)
(* or dies leaves its migration recorded: it can be reverted again, and     *)
(* migration:run passes it over.                                            *)
(***************************************************************************)
EXTENDS MigrationSteps, Naturals, FiniteSets

CONSTANTS Rows,       (* what the rows may be like: [after |-> number of migrations, odd |-> object] *)
          MaxMishaps, (* bound: such rows, processes that die and migrations to be reverted  *)
          PassedOver  (* bound: migrations that may stay half reverted while later ones run  *)

VARIABLES schema,     (* the catalog of the database                                         *)
          recorded,   (* how many migrations the table of migrations holds                   *)
          mode,       (* "idle", "up", "down", or what ended: "refused", "stuck", "not reverted"  *)
          pc,         (* the statement of the running program                                *)
          loaded,     (* the foreign keys ConvertUserIdentityIdsToBigint holds in memory     *)
          forgotten,  (* a process died while it held some                                   *)
          half,       (* migrations whose up() or down() began and has not come to its end   *)
          rows,       (* rows the application has yet to write                               *)
          mishaps     (* how many of the three there were                                    *)

vars == <<schema, recorded, mode, pc, loaded, forgotten, half, rows, mishaps>>

(* One more of the three.                                                   *)
Mishap == mishaps < MaxMishaps /\ mishaps' = mishaps + 1

Migration(up, down) == [up |-> up, down |-> down]

Migrations == <<
  Migration(CreateSchema, UndoCreateSchema),
  Migration(SynchronizeUserIdentity, UndoSynchronizeUserIdentity),
  Migration(SynchronizeAddresses, UndoSynchronizeAddresses),
  Migration(AddSellerOnboarding, UndoAddSellerOnboarding),
  Migration(SynchronizeProductsAndVariants, UndoSynchronizeProductsAndVariants),
  Migration(RemoveCartProductRedundancy, UndoRemoveCartProductRedundancy),
  Migration(MakeProductFieldsRequired, <<>>),
  Migration(CreateInventoryMovements, UndoCreateInventoryMovements),
  Migration(SynchronizeWalletLedger, UndoSynchronizeWalletLedger),
  Migration(SynchronizeCheckoutAndOrders, UndoSynchronizeCheckoutAndOrders),
  Migration(FinalizeOrderConstraints, <<>>),
  Migration(FinalizeOrderAuditAndRefundConstraints, <<>>),
  Migration(AddOrderItemCreatedAt, UndoAddOrderItemCreatedAt),
  Migration(MakeOrderAddressesRequired, <<>>),
  Migration(SynchronizeNotifications, <<>>),
  Migration(SynchronizeConversations, <<>>),
  Migration(OptimizeMessageReadCursor, UndoOptimizeMessageReadCursor),
  Migration(ConvertUserIdentityIdsToBigint, UndoConvertUserIdentityIdsToBigint),
  Migration(FinalizeUserIdentityForeignKeys, UndoFinalizeUserIdentityForeignKeys),
  Migration(CleanupLegacyOrderSchema, UndoCleanupLegacyOrderSchema),
  Migration(ConvertAddressAndCatalogIdsToBigint, UndoConvertAddressAndCatalogIdsToBigint),
  Migration(ConvertOrderIdsToBigint, UndoConvertOrderIdsToBigint),
  Migration(AlignOrderTimelineForeignKey, AlignOrderTimelineForeignKey),
  Migration(ConvertWalletAndAuxiliaryIdsToBigint, UndoConvertWalletAndAuxiliaryIdsToBigint),
  Migration(AlignLegacyTransactionAmount, <<>>),
  Migration(CompleteRewardAiSchema, UndoCompleteRewardAiSchema),
  Migration(AddCommentMedia, UndoAddCommentMedia),
  Migration(OptimizeCommentEligibility, UndoOptimizeCommentEligibility) >>

(* The columns of the first installation whose values the upgrade copies,   *)
(* renames or splits.  notifications.product_id is not among them: 832      *)
(* would only copy it where there is no object_id, and drops it.            *)
Carried == {<<"wallets", "balance">>, <<"products", "price">>, <<"products", "price_discount">>,
            <<"cart_items", "product_id">>, <<"order_timelines", "status">>, <<"Wards", "provinces_id">>}
           \cup In("notifications", {"created_at", "avatar", "object_id", "read"})
           \cup {<<"messages", "created_at">>, <<"conversations_users_users", "usersId">>}
           \cup In("conversations", {"last_messasge_id", "time_last_seen", "time_last_update"})
           \cup {<<"reward_rules", "battle_type">>, <<"reward_proofs", "video_url">>}

NoRows == [after |-> 0, odd |-> <<>>]

Init ==
  /\ schema = NoSchema /\ recorded = 0 /\ mode = "idle" /\ pc = 0
  /\ loaded = {} /\ forgotten = FALSE
  /\ half = {}
  /\ rows \in Rows \cup {NoRows}
  /\ mishaps = 0

Program   == IF mode = "down" THEN Migrations[recorded].down ELSE Migrations[recorded + 1].up
Running   == mode \in {"up", "down"}
AtStep    == Running /\ pc <= Len(Program)
Statement == Program[pc]
Issued    == /\ \A o \in Statement.has : Has(schema, o)
             /\ \A o \in Statement.lacks : ~ Has(schema, o)

RootParent == <<"categories", "parent_id">>

(* The application, at the version that goes with the schema, writes rows   *)
(* the next migrations may not expect.                                      *)
WriteRows ==
  /\ mode = "idle" /\ rows # NoRows /\ recorded = rows.after
  /\ schema' = [schema EXCEPT !.odd = @ \cup {rows.odd}, !.roots = @ \cup ({rows.odd} \cap {RootParent})]
  /\ rows' = NoRows /\ Mishap
  /\ UNCHANGED <<recorded, mode, pc, loaded, forgotten, half>>

Stopped == mode \in {"idle", "not reverted"}

(* The class numbers of the next migration to run and the last one run.     *)
Upcoming == 818 + recorded
Latest   == 817 + recorded

(* migration:run takes the next pending migration.                          *)
Start ==
  /\ Stopped /\ recorded < Len(Migrations) /\ (rows # NoRows => recorded # rows.after)
  /\ half \subseteq PassedOver \cup {Upcoming}
  /\ mode' = "up" /\ pc' = 1 /\ half' = half \cup {Upcoming}
  /\ UNCHANGED <<schema, recorded, loaded, forgotten, rows, mishaps>>

(* migration:revert runs down() of the last one recorded, another time when *)
(* it has not come to its end.                                              *)
Revert ==
  /\ Stopped /\ recorded > 0 /\ rows = NoRows
  /\ IF Latest \in half THEN mishaps' = mishaps ELSE Mishap
  /\ mode' = "down" /\ pc' = 1 /\ half' = half \cup {Latest}
  /\ UNCHANGED <<schema, recorded, loaded, forgotten, rows>>

Skip ==
  /\ AtStep /\ ~ Issued
  /\ pc' = pc + 1
  /\ UNCHANGED <<schema, recorded, mode, loaded, forgotten, half, rows, mishaps>>

Return ==
  /\ AtStep /\ Issued /\ Statement.kind = "return"
  /\ pc' = Len(Program) + 1
  /\ UNCHANGED <<schema, recorded, mode, loaded, forgotten, half, rows, mishaps>>

(* The foreign keys that refer to the columns whose type changes.           *)
Load ==
  /\ AtStep /\ Statement.kind = "load"
  /\ loaded' = {f \in schema.links : f.to \in UserIdColumns}
  /\ pc' = pc + 1
  /\ UNCHANGED <<schema, recorded, mode, forgotten, half, rows, mishaps>>

(* What a loop over foreign keys has still to issue.                        *)
Left ==
  CASE Statement.kind = "dropLinks"    -> {Unlink(f.name) : f \in {g \in schema.links : \/ g.at \in Statement.at
                                                                                        \/ g.to \in Statement.to}}
    [] Statement.kind = "unlinkLoaded" -> {Unlink(f.name) : f \in loaded \cap schema.links}
    [] Statement.kind = "widenLoaded"  -> {Widen(f.at) : f \in {g \in loaded : g.at \notin schema.wide}}
    [] Statement.kind = "narrowLoaded" -> {Narrow(f.at) : f \in {g \in loaded : g.at \in schema.wide}}
    [] Statement.kind = "relinkLoaded" -> {Link(f) : f \in loaded \ schema.links}
    [] OTHER                           -> {}

InLoop == AtStep /\ Statement.kind \in {"dropLinks", "unlinkLoaded", "widenLoaded", "narrowLoaded", "relinkLoaded"}

LoopEnds ==
  /\ InLoop /\ Left = {}
  /\ pc' = pc + 1
  /\ UNCHANGED <<schema, recorded, mode, loaded, forgotten, half, rows, mishaps>>

(* The process ends, and with it the list of foreign keys to add again.     *)
Forget == loaded' = {} /\ forgotten' = (forgotten \/ loaded \ schema.links # {})

(* One statement, which MySQL commits; or its error, which ends the run.    *)
Issue(ks, next) ==
  LET r == Ran(ks, schema, Carried)
  IN  /\ schema' = r.s
      /\ IF r.result = "done" THEN mode' = mode /\ pc' = next
                              ELSE mode' = (IF mode = "up" THEN r.result ELSE "not reverted") /\ pc' = pc
      /\ IF r.result = "done" THEN UNCHANGED <<loaded, forgotten>> ELSE Forget
      /\ UNCHANGED <<recorded, half, rows, mishaps>>

Alter == AtStep /\ Issued /\ Statement.kind = "do" /\ Issue(Statement.do, pc + 1)

AlterNext == InLoop /\ Left # {} /\ Issue(<<CHOOSE k \in Left : TRUE>>, pc)

(* Inserting the row of the migration, or deleting it.                      *)
Record ==
  /\ Running /\ pc > Len(Program)
  /\ recorded' = IF mode = "up" THEN recorded + 1 ELSE recorded - 1
  /\ half' = half \ {IF mode = "up" THEN Upcoming ELSE Latest}
  /\ mode' = "idle" /\ pc' = 0 /\ loaded' = {}
  /\ UNCHANGED <<schema, forgotten, rows, mishaps>>

(* The process dies; what it held in memory is gone.                        *)
Crash ==
  /\ Running /\ Mishap
  /\ mode' = "idle" /\ pc' = 0 /\ Forget
  /\ UNCHANGED <<schema, recorded, half, rows>>

(* A run that was refused: the rows are put in order, and it can be started *)
(* again.                                                                   *)
Repair ==
  /\ mode = "refused"
  /\ schema' = [schema EXCEPT !.odd = {}]
  /\ mode' = "idle" /\ pc' = 0
  /\ UNCHANGED <<recorded, loaded, forgotten, half, rows, mishaps>>

Next == \/ WriteRows \/ Start \/ Revert \/ Skip \/ Return \/ Load \/ LoopEnds \/ Alter \/ AlterNext
        \/ Record \/ Crash \/ Repair

Spec == Init /\ [][Next]_vars

-----------------------------------------------------------------------------
(* The references of docs/database_schema.dbml:1018-1093.                   *)
References(to, from) == {<<c, to>> : c \in from}

DesignedReferences ==
  References(<<"users", "id">>,
    {<<t, "user_id">> : t \in {"user_codes", "wallets", "reward_appeals", "reward_proofs", "comments", "likes", "rates",
        "reports", "saved_searches", "addresses", "seller_profiles", "cart_items", "conversation_participants",
        "notifications", "dev_tokens", "push_settings"}}
    \cup In("seller_applications", {"applicant_id", "reviewed_by"}) \cup In("refunds", {"requested_by", "responded_by"})
    \cup In("user_follows", {"follower_id", "followee_id"}) \cup In("user_blocks", {"blocker_id", "blocked_id"})
    \cup {<<"media_assets", "uploader_id">>, <<"rates", "reviewer_id">>, <<"shipping", "shipper_id">>,
          <<"order_timelines", "changed_by">>, <<"orders", "buyer_id">>, <<"inventory_movements", "created_by">>,
          <<"messages", "sender_id">>, <<"conversations", "last_message_sender_id">>, <<"notifications", "actor_id">>})
  \cup References(<<"seller_profiles", "user_id">>, {<<"orders", "seller_id">>, <<"products", "seller_id">>})
  \cup References(<<"wallets", "id">>, {<<"transactions", "wallet_id">>, <<"wallet_entries", "wallet_id">>})
  \cup References(<<"wallet_operations", "id">>,
         {<<"wallet_entries", "operation_id">>, <<"wallet_operations", "reverses_operation_id">>})
  \cup References(<<"reward_proofs", "id">>,
         {<<t, "proof_id">> : t \in {"reward_appeals", "proof_achievements", "ai_evaluation_logs"}})
  \cup References(<<"reward_rules", "id">>, {<<"proof_achievements", "rule_id">>})
  \cup References(<<"products", "id">>,
         {<<t, "product_id">> : t \in {"product_variants", "comments", "likes", "rates", "reports", "order_items"}})
  \cup References(<<"categories", "id">>,
         {<<"categories", "parent_id">>, <<"brands", "category_id">>, <<"products", "category_id">>})
  \cup References(<<"brands", "id">>, {<<"products", "brand_id">>})
  \cup References(<<"comments", "id">>, {<<"comment_media", "comment_id">>})
  \cup References(<<"media_assets", "id">>, {<<"comment_media", "media_asset_id">>})
  \cup References(<<"orders", "id">>,
         {<<t, "order_id">> : t \in {"shipping", "order_timelines", "refunds", "order_items"}}
         \cup {<<"rates", "purchase_id">>})
  \cup References(<<"order_items", "id">>, {<<"inventory_movements", "order_item_id">>})
  \cup References(<<"Provinces", "id">>, {<<"Wards", "province_id">>})
  \cup References(<<"Wards", "id">>, {<<"addresses", "ward_id">>})
  \cup References(<<"addresses", "id">>,
         {<<"seller_applications", "ship_from_address_id">>, <<"seller_profiles", "default_ship_from_address_id">>,
          <<"orders", "buyer_address_id">>, <<"orders", "seller_address_id">>, <<"products", "ship_from_id">>})
  \cup References(<<"seller_applications", "id">>, {<<"seller_profiles", "approved_application_id">>})
  \cup References(<<"product_variants", "id">>,
         {<<t, "variant_id">> : t \in {"order_items", "inventory_movements", "cart_items"}})
  \cup References(<<"conversations", "id">>, {<<"messages", "conversation_id">>, <<"conversation_participants", "conversation_id">>})
  \cup References(<<"messages", "id">>,
         {<<"conversations", "last_message_id">>, <<"conversation_participants", "last_read_message_id">>})

(* The unique keys the services count on: one checkout per key, one message *)
(* per client id, one notification per event, one comment per key, one      *)
(* account per phone, one cart line and one order line per variant.         *)
UniqueKeys == {<<"orders", "uq_orders_buyer_checkout_idempotency">>, <<"messages", "uq_messages_sender_client_id">>,
               <<"notifications", "uq_notifications_user_deduplication">>, <<"comments", "uq_comments_user_idempotency">>,
               <<"users", "UQ_users_phonenumber">>, <<"cart_items", "UQ_cart_items_user_variant">>,
               <<"order_items", "uq_order_items_order_variant">>}

AllRecorded == mode = "idle" /\ recorded = Len(Migrations)

Enforced == {<<f.at, f.to>> : f \in schema.links}

(* What may be missing: the references to users, when a process died while  *)
(* migration 835 alone knew of foreign keys it had dropped; those migration *)
(* 838 adds, when its down() stopped half way and it stayed recorded.       *)
Lost ==
  {r \in DesignedReferences : \/ forgotten /\ r[2] \in UserIdColumns
                              \/ 838 \in half /\ r[1] \in At(CatalogKeys)}

(* Once every migration is recorded the database is the designed one: the   *)
(* foreign keys are those of the design, each once, between BIGINT columns, *)
(* and the unique keys are there.  A run that was refused and repaired, a   *)
(* process that died in the middle of a migration, a migration reverted,    *)
(* also after a first attempt that died or failed, and run again lead to    *)
(* the same schema, but for what is Lost.  Nothing is said when another     *)
(* migration than 838 stays half reverted and recorded.                     *)
UpgradeMeetsDesign ==
  AllRecorded /\ half \subseteq {838} =>
    /\ Enforced \subseteq DesignedReferences
    /\ DesignedReferences \ Enforced \subseteq Lost
    /\ Cardinality(schema.links) = Cardinality(Enforced)
    /\ \A r \in DesignedReferences \ Lost : {r[1], r[2]} \subseteq schema.wide
    /\ UniqueKeys \subseteq schema.objs

(* The migrations whose up(), or down(), creates, adds or drops without     *)
(* looking.                                                                 *)
Unguarded     == {818, 819, 820, 821, 822, 832, 833, 834, 844, 845}
UnguardedDown == {818, 819, 820, 821, 822, 834, 843, 844, 845}

(* A migration whose statements look before they alter can be started again *)
(* wherever its process died, and after its down(), and its down() can be   *)
(* repeated until it ends: only the unguarded ones are stuck then, and need *)
(* the database put right by hand.  There are two exceptions.  down() of    *)
(* 823 looks for the column, not for the foreign key it adds after it: if   *)
(* its process died in between, it takes itself for done when it is called  *)
(* again, and up() is stuck.  And down() of 838 never ends if there is a    *)
(* root category.                                                           *)
GuardedMigrationsResume ==
  /\ mode = "stuck" /\ half \subseteq {Upcoming} =>
       \/ Upcoming \in Unguarded
       \/ Upcoming = 823 /\ ~ Has(schema, <<"FK", "cart_items", "product_id">>)
  /\ mode = "not reverted" /\ half \subseteq {Latest} =>
       \/ Latest \in UnguardedDown
       \/ Latest = 838 /\ RootParent \in schema.roots

(* No statement of an upgrade drops the last copy of a column of the first  *)
(* installation whose values the upgrade copies, renames or splits, also    *)
(* not when a migration that had copied and dropped half of them is run a   *)
(* second time.                                                             *)
Origins(s) == {m[1] : m \in s.data}

LegacyValuesAreKept == [][mode = "up" => Origins(schema) \subseteq Origins(schema')]_vars

=============================================================================
