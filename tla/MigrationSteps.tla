--------------------------- MODULE MigrationSteps ---------------------------
(***************************************************************************)
(* The migrations of src/src/migrations: for each of them the statements    *)
(* up() issues, in order, and for those that have a down() that does        *)
(* something the statements of down(), named Undo...  A statement the code  *)
(* issues only after a look-up in the catalog carries what it looked for.   *)
(* Only the columns some later migration, a foreign key or the data carried *)
(* over depends on are named.  The last digits of a class name are left     *)
(* out.                                                                     *)
(***************************************************************************)
EXTENDS Schema

(* A statement: issued when the catalog has every object of has and none of *)
(* lacks.                                                                   *)
If(has, lacks, ks) == [kind |-> "do", has |-> has, lacks |-> lacks, do |-> ks]
Do(ks)         == If({}, {}, ks)
Unless(o, ks)  == If({}, {o}, ks)
When(o, ks)    == If({o}, {}, ks)

(* A loop over the foreign keys at the columns at, or that refer to the     *)
(* columns to, dropping one after the other.                                *)
DropForeignKeys(at, to) == [kind |-> "dropLinks", has |-> {}, lacks |-> {}, at |-> at, to |-> to]

(* up() or down() ends here when the catalog has the object.                *)
ReturnIf(o) == [kind |-> "return", has |-> {o}, lacks |-> {}]
ReturnUnless(o) == [kind |-> "return", has |-> {}, lacks |-> {o}]

(* The loops of ConvertUserIdentityIdsToBigint over the keys it loaded.     *)
Loop(kind) == [kind |-> kind, has |-> {}, lacks |-> {}]

(* One statement for each element of a sequence.                            *)
Each(list, Statement(_)) == [i \in DOMAIN list |-> Statement(list[i])]

(* A foreign key of the first schema is named after its column (the code    *)
(* has a hash there).                                                       *)
Legacy(t, c, ref) == FK(<<"FK", t, c>>, <<t, c>>, <<ref, "id">>)
Key(name, t, c, ref) == FK(<<name>>, <<t, c>>, <<ref, "id">>)

(***************************************************************************)
(* 818: the schema of the first installation.                               *)
(***************************************************************************)
LegacyLinks == <<
  Legacy("user_codes", "user_id", "users"), Legacy("transactions", "wallet_id", "wallets"),
  Legacy("wallets", "user_id", "users"), Legacy("reward_appeals", "proof_id", "reward_proofs"),
  Legacy("reward_appeals", "user_id", "users"), Legacy("reward_proofs", "user_id", "users"),
  Legacy("product_variants", "product_id", "products"), Legacy("comments", "product_id", "products"),
  Legacy("comments", "user_id", "users"), Legacy("likes", "product_id", "products"),
  Legacy("likes", "user_id", "users"), Legacy("reports", "product_id", "products"),
  Legacy("reports", "user_id", "users"), Legacy("Warehouses", "ward_id", "Wards"),
  Legacy("Wards", "provinces_id", "Provinces"), Legacy("addresses", "user_id", "users"),
  Legacy("addresses", "ward_id", "Wards"), Legacy("shipping", "order_id", "orders"),
  Legacy("shipping", "address_id", "addresses"), Legacy("Status", "order_id", "orders"),
  Legacy("order_timelines", "order_id", "orders"), Legacy("orders", "buyer_id", "users"),
  Legacy("orders", "seller_id", "users"), Legacy("orders", "buyer_address_id", "addresses"),
  Legacy("orders", "seller_address_id", "addresses"), Legacy("order_items", "order_id", "orders"),
  Legacy("order_items", "product_id", "products"), Legacy("order_items", "variant_id", "product_variants"),
  Legacy("cart_items", "user_id", "users"), Legacy("cart_items", "product_id", "products"),
  Legacy("products", "seller_id", "users"), Legacy("products", "ship_from_id", "addresses"),
  Legacy("products", "category_id", "categories"), Legacy("products", "brand_id", "brands"),
  Legacy("messages", "conversation_id", "conversations"), Legacy("messages", "sender_id", "users"),
  Legacy("messages", "receiver_id", "users"), Legacy("user_follows", "follower_id", "users"),
  Legacy("user_follows", "followee_id", "users"), Legacy("notifications", "user_id", "users"),
  Legacy("dev_tokens", "user_id", "users"), Legacy("user_blocks", "blocker_id", "users"),
  Legacy("user_blocks", "blocked_id", "users"), Legacy("push_settings", "user_id", "users"),
  Legacy("conversations_users_users", "conversationsId", "conversations"),
  Legacy("conversations_users_users", "usersId", "users") >>

LegacyTables == <<
  <<"user_codes", {}>>, <<"transactions", {}>>, <<"wallets", {"balance"}>>, <<"reward_appeals", {"status"}>>,
  <<"reward_proofs", {"video_url", "image_url", "reward_coin", "status"}>>, <<"product_variants", {"stock"}>>,
  <<"comments", {}>>, <<"likes", {}>>, <<"reports", {}>>, <<"Provinces", {}>>, <<"Warehouses", {}>>,
  <<"Wards", {}>>, <<"addresses", {"address_detail", "receiver_name", "phone", "lat", "lng"}>>,
  <<"shipping", {"shipper_id"}>>, <<"Status", {}>>, <<"order_timelines", {"status"}>>,
  <<"orders", {"status_id"}>>, <<"order_items", {"quantity", "total_price"}>>,
  <<"categories", {"parent_id"}>>, <<"brands", {"category_id"}>>,
  <<"cart_items", {"IDX_user_product"}>>, <<"products", {"title", "price", "price_discount"}>>,
  <<"conversations", {"time_last_update", "time_last_seen", "last_messasge_id"}>>,
  <<"messages", {"created_at"}>>, <<"user_follows", {}>>,
  <<"notifications", {"product_id", "object_id", "created_at", "avatar", "group", "read"}>>,
  <<"users", {"username", "phonenumber", "uuid", "role", "status"}>>,
  <<"reward_rules", {"battle_type", "reward_coin"}>>, <<"news", {}>>, <<"dev_tokens", {}>>,
  <<"user_blocks", {}>>, <<"push_settings", {}>>,
  <<"rates", {"user_id", "reviewer_id", "product_id", "purchase_id"}>>, <<"saved_searches", {"user_id"}>>,
  <<"conversations_users_users", {}>> >>

LinkColumns(t) == {LegacyLinks[i].at[2] : i \in {j \in DOMAIN LegacyLinks : LegacyLinks[j].at[1] = t}}

CreateLegacyTable(l) ==
  Do(<<Table(l[1], {"id"} \cup l[2] \cup LinkColumns(l[1]), {}, {})>>
     \o (IF l[1] = "notifications" THEN <<Add(<<"notifications", "created_at", "int">>)>> ELSE <<>>))

CreateSchema == Each(LegacyTables, CreateLegacyTable) \o Each(LegacyLinks, LAMBDA f : Do(<<Link(f)>>))

UndoCreateSchema == Each(Reverse(LegacyLinks), LAMBDA f : Do(<<Unlink(f.name)>>))
                    \o Each(Reverse(LegacyTables), LAMBDA l : Do(<<DropTable(l[1])>>))

(***************************************************************************)
(* 819-824: accounts, addresses, sellers, products and carts.               *)
(***************************************************************************)
Required(t, names) == [i \in DOMAIN names |-> Require(<<t, names[i]>>)]

SynchronizeUserIdentity ==
  Each(<<"role", "status", "uuid">>, LAMBDA c : Do(<<Fill(<<"users", c>>)>>))
  \o << Do(<<Refuse(<<"users", "phonenumber">>), Refuse(<<"users", "username">>)>>),
        Do(Required("users", <<"username", "phonenumber", "uuid", "role", "status">>)) >>
  \o Each(<<"UQ_users_username", "UQ_users_email", "UQ_users_phonenumber", "UQ_users_uuid">>,
          LAMBDA k : Do(<<Add(<<"users", k>>)>>))

UndoSynchronizeUserIdentity ==
  Each(<<"UQ_users_uuid", "UQ_users_phonenumber", "UQ_users_email", "UQ_users_username">>,
       LAMBDA k : Do(<<Drop(<<"users", k>>)>>))

SynchronizeAddresses ==
  << Do(<<Refuse(<<"addresses", "address_detail">>), Refuse(<<"addresses", "receiver_name">>),
          Refuse(<<"addresses", "phone">>)>>),
     Do(<<Drop(<<"addresses", "lat">>), Drop(<<"addresses", "lng">>)>>
        \o Required("addresses", <<"address_detail", "phone">>)),
     Do(<<Add(<<"addresses", "idx_addresses_user_list">>)>>),
     Do(<<Add(<<"addresses", "chk_addresses_default_boolean">>)>>) >>

UndoSynchronizeAddresses ==
  << Do(<<Drop(<<"addresses", "chk_addresses_default_boolean">>)>>),
     Do(<<Drop(<<"addresses", "idx_addresses_user_list">>)>>),
     Do(<<AddEmpty(<<"addresses", "lat">>), AddEmpty(<<"addresses", "lng">>)>>) >>

ToSeller(name, t) == FK(<<name>>, <<t, "seller_id">>, <<"seller_profiles", "user_id">>)

AddSellerOnboarding ==
  << Do(<<Refuse(<<"products">>), Refuse(<<"orders">>)>>),
     Do(<<Table("seller_applications", {"id", "applicant_id", "reviewed_by", "ship_from_address_id"}, {"id"},
            {Key("fk_seller_applications_applicant", "seller_applications", "applicant_id", "users"),
             Key("fk_seller_applications_reviewer", "seller_applications", "reviewed_by", "users"),
             Key("fk_seller_applications_ship_from", "seller_applications", "ship_from_address_id", "addresses")})>>),
     Do(<<Table("seller_profiles", {"user_id", "approved_application_id", "default_ship_from_address_id"},
            {"approved_application_id"},
            {Key("fk_seller_profiles_user", "seller_profiles", "user_id", "users"),
             Key("fk_seller_profiles_approved_application", "seller_profiles", "approved_application_id",
                 "seller_applications"),
             Key("fk_seller_profiles_default_ship_from", "seller_profiles", "default_ship_from_address_id",
                 "addresses")})>>),
     Do(<<Unlink(<<"FK", "products", "seller_id">>), Link(ToSeller("fk_products_seller_profile", "products"))>>),
     Do(<<Unlink(<<"FK", "orders", "seller_id">>), Link(ToSeller("fk_orders_seller_profile", "orders"))>>),
     Do(<<Unlink(<<"FK", "addresses", "user_id">>), Link(Key("fk_addresses_user", "addresses", "user_id", "users"))>>) >>

UndoAddSellerOnboarding ==
  << Do(<<Unlink(<<"fk_products_seller_profile">>), Link(Legacy("products", "seller_id", "users"))>>),
     Do(<<Unlink(<<"fk_orders_seller_profile">>), Link(Legacy("orders", "seller_id", "users"))>>),
     Do(<<Unlink(<<"fk_addresses_user">>), Link(Legacy("addresses", "user_id", "users"))>>),
     Do(<<DropTable("seller_profiles")>>), Do(<<DropTable("seller_applications")>>) >>

SynchronizeProductsAndVariants ==
  << Do(<<Refuse(<<"products", "price">>)>>), Do(<<Refuse(<<"cart_items", "product_id">>)>>),
     Do(<<Refuse(<<"order_items", "variant_id">>)>>),
     Unless(<<"products", "min_price">>, <<AddEmpty(<<"products", "min_price">>), AddEmpty(<<"products", "max_price">>)>>),
     Unless(<<"product_variants", "price">>,
            <<AddEmpty(<<"product_variants", "price">>), AddEmpty(<<"product_variants", "discount_price">>)>>),
     Unless(<<"cart_items", "variant_id">>, <<AddEmpty(<<"cart_items", "variant_id">>)>>),
     Do(<<Copy(<<"products", "price">>, <<"product_variants", "price">>),
          Copy(<<"products", "price_discount">>, <<"product_variants", "discount_price">>),
          Fill(<<"product_variants", "stock">>)>>),
     Do(<<Fill(<<"products", "min_price">>), Fill(<<"products", "max_price">>)>>),
     Do(<<Copy(<<"cart_items", "product_id">>, <<"cart_items", "variant_id">>)>>),
     Do(Required("products", <<"min_price", "max_price">>)
        \o <<Drop(<<"products", "price">>), Drop(<<"products", "price_discount">>)>>),
     Do(Required("product_variants", <<"price", "stock">>)),
     Do(<<Require(<<"cart_items", "variant_id">>), Drop(<<"cart_items", "IDX_user_product">>),
          Add(<<"cart_items", "UQ_cart_items_user_variant">>)>>),
     Do(<<Require(<<"order_items", "variant_id">>)>>),
     Do(<<Add(<<"products", "chk_products_price_range">>)>>),
     Do(<<Add(<<"product_variants", "chk_product_variants_stock_non_negative">>)>>),
     Do(<<Link(Key("fk_cart_items_variant", "cart_items", "variant_id", "product_variants"))>>) >>

UndoSynchronizeProductsAndVariants ==
  << Do(<<Unlink(<<"fk_cart_items_variant">>), Drop(<<"cart_items", "UQ_cart_items_user_variant">>),
          Drop(<<"cart_items", "variant_id">>), Add(<<"cart_items", "IDX_user_product">>)>>),
     Do(<<Drop(<<"products", "chk_products_price_range">>), AddEmpty(<<"products", "price">>),
          AddEmpty(<<"products", "price_discount">>)>>),
     Do(<<Fill(<<"products", "price">>)>>),
     Do(<<Drop(<<"product_variants", "chk_product_variants_stock_non_negative">>),
          Drop(<<"product_variants", "price">>), Drop(<<"product_variants", "discount_price">>)>>),
     Do(<<Drop(<<"products", "min_price">>), Drop(<<"products", "max_price">>)>>) >>

RemoveCartProductRedundancy ==
  << ReturnUnless(<<"cart_items", "product_id">>),
     Do(<<Unlink(<<"FK", "cart_items", "product_id">>), Drop(<<"cart_items", "product_id">>)>>) >>

UndoRemoveCartProductRedundancy ==
  << ReturnIf(<<"cart_items", "product_id">>), Do(<<AddEmpty(<<"cart_items", "product_id">>)>>),
     Do(<<Copy(<<"cart_items", "variant_id">>, <<"cart_items", "product_id">>)>>),
     Do(<<Require(<<"cart_items", "product_id">>), Link(Legacy("cart_items", "product_id", "products"))>>) >>

MakeProductFieldsRequired ==
  << Do(<<Refuse(<<"products", "title">>), Refuse(<<"products", "category_id">>)>>),
     Do(Required("products", <<"title", "category_id">>)) >>

(***************************************************************************)
(* 825-831: inventory, the wallet ledger, checkout and orders.              *)
(***************************************************************************)
(* Mutant of CreateInventoryMovements: without looking whether the table     *)
(* exists.                                                                  *)
CreateInventoryMovementsAgain ==
  << Do(<<Table("inventory_movements", {"id", "variant_id", "order_item_id", "created_by"}, {"id"},
            {Key("fk_inventory_movements_variant", "inventory_movements", "variant_id", "product_variants"),
             Key("fk_inventory_movements_order_item", "inventory_movements", "order_item_id", "order_items"),
             Key("fk_inventory_movements_created_by", "inventory_movements", "created_by", "users")})>>) >>

CreateInventoryMovements ==
  << ReturnIf(<<"inventory_movements">>),
     Do(<<Table("inventory_movements", {"id", "variant_id", "order_item_id", "created_by"}, {"id"},
            {Key("fk_inventory_movements_variant", "inventory_movements", "variant_id", "product_variants"),
             Key("fk_inventory_movements_order_item", "inventory_movements", "order_item_id", "order_items"),
             Key("fk_inventory_movements_created_by", "inventory_movements", "created_by", "users")})>>) >>

UndoCreateInventoryMovements ==
  << When(<<"inventory_movements">>, <<DropTable("inventory_movements")>>) >>

SynchronizeWalletLedger ==
  << If({<<"wallets", "balance">>}, {<<"wallets", "available_balance">>},
        <<Move(<<"wallets", "balance">>, <<"wallets", "available_balance">>)>>) >>
  \o Each(<<"status", "version", "created_at", "updated_at">>,
          LAMBDA c : Unless(<<"wallets", c>>, <<Add(<<"wallets", c>>)>>))
  \o << Unless(<<"wallet_operations">>,
           <<Table("wallet_operations", {"id", "reverses_operation_id"}, {"id", "reverses_operation_id"},
               {Key("fk_wallet_operations_reversal", "wallet_operations", "reverses_operation_id",
                    "wallet_operations")})>>),
        Unless(<<"wallet_entries">>,
           <<Table("wallet_entries", {"id", "operation_id", "wallet_id"}, {"id", "operation_id"},
               {Key("fk_wallet_entries_operation", "wallet_entries", "operation_id", "wallet_operations"),
                Key("fk_wallet_entries_wallet", "wallet_entries", "wallet_id", "wallets")})>>) >>

UndoSynchronizeWalletLedger ==
  << When(<<"wallet_entries">>, <<DropTable("wallet_entries")>>),
     When(<<"wallet_operations">>, <<DropTable("wallet_operations")>>) >>
  \o Each(<<"updated_at", "created_at", "version", "status">>,
          LAMBDA c : When(<<"wallets", c>>, <<Drop(<<"wallets", c>>)>>))
  \o << If({<<"wallets", "available_balance">>}, {<<"wallets", "balance">>},
           <<Move(<<"wallets", "available_balance">>, <<"wallets", "balance">>)>>) >>

(* Columns added without a value, filled from what the rows have, and only  *)
(* then made NOT NULL; what could not be filled stops the migration.        *)
OrderSnapshots == << "checkout_idempotency_key", "checkout_request_hash", "buyer_receiver_name", "buyer_phone",
                     "buyer_full_address", "seller_full_address", "status_changed_at", "settlement_status" >>
ItemSnapshots  == << "product_title_snapshot", "variant_snapshot", "unit_list_price", "unit_price" >>

AddMissing(t, names) == Each(names, LAMBDA c : Unless(<<t, c>>, <<AddEmpty(<<t, c>>)>>))
FillAll(t, names) == Do([i \in DOMAIN names |-> Fill(<<t, names[i]>>)])
AddMissingObjects(t, names) == Each(names, LAMBDA k : Unless(<<t, k>>, <<Add(<<t, k>>)>>))

OrderChecks == << "chk_orders_buyer_not_seller", "chk_orders_return_requires_delivery" >>
ItemChecks  == << "chk_order_items_quantity_positive", "chk_order_items_total_price" >>

SynchronizeOrderRows ==
  AddMissing("orders", OrderSnapshots)
  \o << FillAll("orders", OrderSnapshots),
        DropForeignKeys(In("orders", {"buyer_address_id", "seller_address_id"}), {}),
        Do(Required("orders", OrderSnapshots \o <<"buyer_address_id", "seller_address_id">>)) >>
  \o AddMissingObjects("orders", <<"uq_orders_buyer_checkout_idempotency", "idx_orders_settlement_release">>)
  \o AddMissingObjects("orders", OrderChecks)

SynchronizeItemRows ==
  AddMissing("order_items", ItemSnapshots)
  \o << Unless(<<"order_items", "created_at">>, <<Add(<<"order_items", "created_at">>)>>),
        FillAll("order_items", ItemSnapshots),
        Do(<<Refuse(<<"order_items", "quantity">>), Refuse(<<"order_items", "total_price">>)>>),
        Do(Required("order_items", ItemSnapshots \o <<"quantity", "total_price">>)) >>
  \o AddMissingObjects("order_items", <<"uq_order_items_order_variant">> \o ItemChecks)

(* Mutant of SynchronizeTimelineRows: the new column is given a value of its *)
(* own instead of the old status.                                           *)
SynchronizeTimelineRowsAfresh ==
  << Unless(<<"order_timelines", "new_status">>, <<Add(<<"order_timelines", "new_status">>)>>),
     When(<<"order_timelines", "status">>, <<Drop(<<"order_timelines", "status">>)>>) >>

SynchronizeTimelineRows ==
  << If({<<"order_timelines", "status">>}, {<<"order_timelines", "new_status">>},
        <<AddEmpty(<<"order_timelines", "new_status">>)>>) >>
  \o AddMissingObjects("order_timelines", <<"previous_status", "change_source", "changed_by">>)
  \o << When(<<"order_timelines", "status">>,
             <<Copy(<<"order_timelines", "status">>, <<"order_timelines", "new_status">>)>>),
        Do(<<Refuse(<<"order_timelines", "new_status">>)>>),
        Do(<<Require(<<"order_timelines", "new_status">>)>>),
        When(<<"order_timelines", "status">>, <<Drop(<<"order_timelines", "status">>)>>) >>

SynchronizeShippingAndRefunds ==
  << DropForeignKeys({<<"shipping", "address_id">>}, {}),
     When(<<"shipping", "address_id">>, <<Drop(<<"shipping", "address_id">>)>>),
     Unless(<<"refunds">>,
       <<Table("refunds", {"id", "order_id", "requested_by", "responded_by"}, {"id"},
           {Key("fk_refunds_order", "refunds", "order_id", "orders"),
            Key("fk_refunds_requested_by", "refunds", "requested_by", "users"),
            Key("fk_refunds_responded_by", "refunds", "responded_by", "users")})>>) >>

SynchronizeCheckoutAndOrders ==
  SynchronizeOrderRows \o SynchronizeItemRows \o SynchronizeTimelineRows \o SynchronizeShippingAndRefunds

UndoSynchronizeCheckoutAndOrders == << When(<<"refunds">>, <<DropTable("refunds")>>) >>

FinalizeOrderConstraints ==
  AddMissingObjects("orders", OrderChecks) \o AddMissingObjects("order_items", ItemChecks)
  \o << DropForeignKeys({<<"orders", "status_id">>}, {}),
        When(<<"orders", "status_id">>, <<Drop(<<"orders", "status_id">>)>>) >>

FinalizeOrderAuditAndRefundConstraints ==
  << Do(<<Widen(<<"order_timelines", "id">>)>>) >>
  \o AddMissingObjects("order_timelines", <<"idx_order_timelines_history">>)
  \o << If({<<"refunds">>}, {<<"refunds", "chk_refunds_seller_has_responder">>},
           <<Add(<<"refunds", "chk_refunds_seller_has_responder">>)>>),
        If({<<"refunds">>}, {<<"refunds", "chk_refunds_timeout_has_no_responder">>},
           <<Add(<<"refunds", "chk_refunds_timeout_has_no_responder">>)>>) >>

AddOrderItemCreatedAt == AddMissingObjects("order_items", <<"created_at">>)

UndoAddOrderItemCreatedAt ==
  << When(<<"order_items", "created_at">>, <<Drop(<<"order_items", "created_at">>)>>) >>

MakeOrderAddressesRequired ==
  << Do(<<Refuse(<<"orders", "buyer_address_id">>), Refuse(<<"orders", "seller_address_id">>)>>),
     DropForeignKeys(In("orders", {"buyer_address_id", "seller_address_id"}), {}),
     Do(Required("orders", <<"buyer_address_id", "seller_address_id">>)),
     Do(<<Link(Key("fk_orders_buyer_address", "orders", "buyer_address_id", "addresses")),
          Link(Key("fk_orders_seller_address", "orders", "seller_address_id", "addresses"))>>) >>

(***************************************************************************)
(* 832-834: notifications and conversations.                                *)
(***************************************************************************)
CreatedAtIsInt == <<"notifications", "created_at", "int">>

(* The target is COALESCE(target_id, object_id, product_id): object_id is    *)
(* NOT NULL in 818 and dropped after product_id, so that no product_id is   *)
(* ever taken.                                                              *)
NotificationColumns ==
  << Do(<<Refuse(<<"notifications", "user_id">>)>>),
     DropForeignKeys(In("notifications", {"user_id", "actor_id"}), {}) >>
  \o AddMissingObjects("notifications",
       <<"actor_id", "deduplication_key", "image_url", "is_navigable", "target_type", "target_id", "is_read", "read_at">>)
  \o << Unless(CreatedAtIsInt, <<Require(<<"notifications", "created_at">>)>>),
        If({CreatedAtIsInt}, {<<"notifications", "created_at_v2">>}, <<AddEmpty(<<"notifications", "created_at_v2">>)>>),
        When(CreatedAtIsInt, <<Copy(<<"notifications", "created_at">>, <<"notifications", "created_at_v2">>)>>),
        When(CreatedAtIsInt, <<Drop(<<"notifications", "created_at">>)>>),
        When(<<"notifications", "created_at_v2">>,
             <<Move(<<"notifications", "created_at_v2">>, <<"notifications", "created_at">>)>>),
        When(<<"notifications", "avatar">>,
             <<Copy(<<"notifications", "avatar">>, <<"notifications", "image_url">>)>>),
        When(<<"notifications", "object_id">>,
             <<Copy(<<"notifications", "object_id">>, <<"notifications", "target_id">>)>>),
        When(<<"notifications", "read">>, <<Copy(<<"notifications", "read">>, <<"notifications", "is_read">>)>>) >>

NotificationKeys ==
  << Do(<<Widen(<<"notifications", "id">>), Widen(<<"notifications", "target_id">>)>>
        \o Required("notifications", <<"user_id", "created_at">>)) >>
  \o Each(<<"product_id", "object_id", "avatar", "group", "read">>,
          LAMBDA c : When(<<"notifications", c>>, <<Drop(<<"notifications", c>>)>>))
  \o AddMissingObjects("notifications", <<"uq_notifications_user_deduplication", "idx_notifications_user_inbox">>)
  \o << Do(<<Link(Key("fk_notifications_user", "notifications", "user_id", "users"))>>),
        Do(<<Link(Key("fk_notifications_actor", "notifications", "actor_id", "users"))>>) >>
  \o AddMissingObjects("notifications", <<"chk_notifications_navigation_target", "chk_notifications_read_state">>)

SynchronizeNotifications == NotificationColumns \o NotificationKeys

ConversationsAdded == << "last_message_id", "last_message_sender_id", "last_message_at", "created_at", "updated_at" >>

ConversationRows ==
  << Do(<<Refuse(<<"conversations_users_users">>)>>),
     Do(<<Refuse(<<"messages", "conversation_id">>), Refuse(<<"messages", "sender_id">>)>>),
     Do(<<Refuse(<<"conversations", "last_messasge_id">>)>>),
     DropForeignKeys(In("messages", {"conversation_id", "sender_id", "receiver_id"}), {}),
     DropForeignKeys(In("conversations_users_users", {"conversationsId", "usersId"}), {}),
     Do([i \in DOMAIN ConversationsAdded |-> AddEmpty(<<"conversations", ConversationsAdded[i]>>)]
        \o <<Widen(<<"conversations", "last_message_id">>)>>),
     Do(<<Copy(<<"conversations", "last_messasge_id">>, <<"conversations", "last_message_id">>),
          Copy(<<"conversations", "time_last_update">>, <<"conversations", "updated_at">>),
          Fill(<<"conversations", "created_at">>), Fill(<<"conversations", "last_message_sender_id">>)>>),
     Do(<<AddEmpty(<<"messages", "client_message_id">>), AddEmpty(<<"messages", "created_at_v2">>)>>),
     Do(<<Fill(<<"messages", "client_message_id">>),
          Copy(<<"messages", "created_at">>, <<"messages", "created_at_v2">>)>>),
     Do(<<Drop(<<"messages", "created_at">>)>>),
     Do(<<Move(<<"messages", "created_at_v2">>, <<"messages", "created_at">>)>>),
     Do(<<Widen(<<"conversations", "id">>)>> \o Required("conversations", <<"created_at", "updated_at">>)),
     Do(<<Widen(<<"messages", "id">>), Widen(<<"messages", "conversation_id">>)>>
        \o Required("messages", <<"conversation_id", "sender_id", "client_message_id">>)) >>

ConversationParticipants ==
  << Do(<<Table("conversation_participants", {"conversation_id", "user_id", "last_read_message_id", "last_read_at"},
            {"conversation_id", "last_read_message_id"}, {})>>),
     Do(<<Copy(<<"conversations_users_users", "usersId">>, <<"conversation_participants", "user_id">>),
          Copy(<<"conversations", "time_last_seen">>, <<"conversation_participants", "last_read_at">>)>>),
     Do(<<DropTable("conversations_users_users")>>),
     When(<<"messages", "receiver_id">>, <<Drop(<<"messages", "receiver_id">>)>>),
     Do(<<Drop(<<"conversations", "time_last_update">>), Drop(<<"conversations", "time_last_seen">>),
          Drop(<<"conversations", "last_messasge_id">>)>>) >>

ConversationKeys ==
  AddMissingObjects("conversations", <<"uq_conversations_last_message_id">>)
  \o AddMissingObjects("messages", <<"idx_messages_conversation_time", "uq_messages_sender_client_id">>)
  \o << Do(<<Add(<<"conversation_participants", "chk_conversation_participants_unread_non_negative">>)>>),
        Do(<<Link(Key("fk_messages_conversation", "messages", "conversation_id", "conversations")),
             Link(Key("fk_messages_sender", "messages", "sender_id", "users"))>>),
        Do(<<Link(Key("fk_conversations_last_message", "conversations", "last_message_id", "messages")),
             Link(Key("fk_conversations_last_message_sender", "conversations", "last_message_sender_id", "users"))>>),
        Do(<<Link(Key("fk_conversation_participants_conversation", "conversation_participants", "conversation_id",
                      "conversations")),
             Link(Key("fk_conversation_participants_user", "conversation_participants", "user_id", "users")),
             Link(Key("fk_conversation_participants_last_read_message", "conversation_participants",
                      "last_read_message_id", "messages"))>>) >>

SynchronizeConversations == ConversationRows \o ConversationParticipants \o ConversationKeys

OptimizeMessageReadCursor     == << Do(<<Add(<<"messages", "idx_messages_conversation_id">>)>>) >>
UndoOptimizeMessageReadCursor == << Do(<<Drop(<<"messages", "idx_messages_conversation_id">>)>>) >>

(***************************************************************************)
(* 835-837: user ids become BIGINT; the tables of the old order status go.  *)
(***************************************************************************)
UserIdColumns == {<<"users", "id">>, <<"seller_profiles", "user_id">>}

ConvertUserIdentityIdsToBigint ==
  << Loop("load"), Loop("unlinkLoaded"), Do(<<Widen(<<"users", "id">>)>>),
     When(<<"seller_profiles">>, <<Widen(<<"seller_profiles", "user_id">>)>>),
     Loop("widenLoaded"), Loop("relinkLoaded") >>

UndoConvertUserIdentityIdsToBigint ==
  << Loop("load"), Loop("unlinkLoaded"), Do(<<Narrow(<<"users", "id">>)>>),
     When(<<"seller_profiles">>, <<Narrow(<<"seller_profiles", "user_id">>)>>),
     Loop("narrowLoaded"), Loop("relinkLoaded") >>

IdentityKeys == <<
  Key("fk_rates_user", "rates", "user_id", "users"), Key("fk_rates_reviewer", "rates", "reviewer_id", "users"),
  Key("fk_saved_searches_user", "saved_searches", "user_id", "users"),
  Key("fk_shipping_shipper", "shipping", "shipper_id", "users"),
  Key("fk_order_timelines_changed_by", "order_timelines", "changed_by", "users") >>

FinalizeUserIdentityForeignKeys ==
  FlattenSeq(Each(IdentityKeys, LAMBDA f :
    << When(f.at, <<Widen(f.at)>>), If({f.at}, {f.at \o <<"users">>}, <<Link(f)>>) >>))

UndoFinalizeUserIdentityForeignKeys ==
  FlattenSeq(Each(Reverse(IdentityKeys), LAMBDA f :
    << When(f.name, <<Unlink(f.name)>>), When(f.at, <<Narrow(f.at)>>) >>))

DropEmptyLegacyTable(t, column) ==
  << When(<<t>>, <<Refuse(<<t>>)>>), DropForeignKeys({<<t, column>>}, {}), When(<<t>>, <<DropTable(t)>>) >>

CleanupLegacyOrderSchema ==
  DropEmptyLegacyTable("Status", "order_id") \o DropEmptyLegacyTable("Warehouses", "ward_id")
  \o << DropForeignKeys({<<"Wards", "provinces_id">>}, {}),
        When(<<"Wards", "provinces_id">>, <<Move(<<"Wards", "provinces_id">>, <<"Wards", "province_id">>)>>),
        Unless(<<"Wards", "province_id", "Provinces">>,
               <<Link(Key("fk_wards_province", "Wards", "province_id", "Provinces"))>>) >>

UndoCleanupLegacyOrderSchema ==
  << ReturnUnless(<<"Wards", "province_id">>),
     DropForeignKeys({<<"Wards", "province_id">>}, {}),
     Do(<<Move(<<"Wards", "province_id">>, <<"Wards", "provinces_id">>)>>),
     Do(<<Link(Legacy("Wards", "provinces_id", "Provinces"))>>) >>

(***************************************************************************)
(* 838-841: the other ids become BIGINT.  The three migrations work alike:  *)
(* the foreign keys at the listed columns are dropped, the columns changed, *)
(* and the keys not found by name added.                                    *)
(***************************************************************************)
At(keys) == {keys[i].at : i \in DOMAIN keys}

Relink(keys) == Each(keys, LAMBDA f : If({<<f.at[1]>>}, {f.name}, <<Link(f)>>))
WidenEach(columns)  == Each(columns, LAMBDA c : When(<<c[1]>>, <<Widen(c)>>))
NarrowEach(columns) == Each(columns, LAMBDA c : When(<<c[1]>>, <<Narrow(c)>>))

CatalogKeys == <<
  Key("fk_wards_province", "Wards", "province_id", "Provinces"), Key("fk_addresses_ward", "addresses", "ward_id", "Wards"),
  Key("fk_seller_applications_ship_from", "seller_applications", "ship_from_address_id", "addresses"),
  Key("fk_seller_profiles_default_ship_from", "seller_profiles", "default_ship_from_address_id", "addresses"),
  Key("fk_orders_buyer_address", "orders", "buyer_address_id", "addresses"),
  Key("fk_orders_seller_address", "orders", "seller_address_id", "addresses"),
  Key("fk_products_ship_from", "products", "ship_from_id", "addresses"),
  Key("fk_categories_parent", "categories", "parent_id", "categories"),
  Key("fk_brands_category", "brands", "category_id", "categories"),
  Key("fk_products_category", "products", "category_id", "categories"), Key("fk_products_brand", "products", "brand_id", "brands"),
  Key("fk_product_variants_product", "product_variants", "product_id", "products"),
  Key("fk_comments_product", "comments", "product_id", "products"), Key("fk_likes_product", "likes", "product_id", "products"),
  Key("fk_rates_product", "rates", "product_id", "products"), Key("fk_reports_product", "reports", "product_id", "products"),
  Key("fk_cart_items_variant", "cart_items", "variant_id", "product_variants"),
  Key("fk_order_items_product", "order_items", "product_id", "products"),
  Key("fk_order_items_variant", "order_items", "variant_id", "product_variants"),
  Key("fk_inventory_movements_variant", "inventory_movements", "variant_id", "product_variants"),
  Key("fk_inventory_movements_order_item", "inventory_movements", "order_item_id", "order_items") >>

CatalogColumns ==
  Each(<<"Provinces", "Wards", "addresses", "categories", "brands", "products", "product_variants", "cart_items",
         "order_items">>, LAMBDA t : <<t, "id">>)
  \o Each(CatalogKeys, LAMBDA f : f.at)

ConvertAddressAndCatalogIdsToBigint ==
  << DropForeignKeys(At(CatalogKeys), {}), When(<<"categories">>, <<Fill(<<"categories", "parent_id">>)>>) >>
  \o WidenEach(CatalogColumns) \o Relink(CatalogKeys)

(* A root category's parent is 0 again, which fk_categories_parent refuses.  *)
UndoConvertAddressAndCatalogIdsToBigint ==
  << DropForeignKeys(At(CatalogKeys), {}), When(<<"categories">>, <<Zero(<<"categories", "parent_id">>)>>) >>
  \o NarrowEach(CatalogColumns) \o Relink(CatalogKeys)

OrderKeys == <<
  Key("fk_order_items_order", "order_items", "order_id", "orders"), Key("fk_shipping_order", "shipping", "order_id", "orders"),
  Key("fk_refunds_order", "refunds", "order_id", "orders"),
  Key("fk_order_timelines_order", "order_timelines", "order_id", "orders"),
  Key("fk_rates_purchase_order", "rates", "purchase_id", "orders") >>

OrderColumns == <<<<"orders", "id">>, <<"shipping", "id">>>> \o Each(OrderKeys, LAMBDA f : f.at)

(* Mutant of ConvertOrderIdsToBigint: the keys are not added again.          *)
ConvertOrderIdsAlone == << DropForeignKeys(At(OrderKeys), {}) >> \o WidenEach(OrderColumns)

ConvertOrderIdsToBigint ==
  << DropForeignKeys(At(OrderKeys), {}) >> \o WidenEach(OrderColumns) \o Relink(OrderKeys)
UndoConvertOrderIdsToBigint ==
  << DropForeignKeys(At(OrderKeys), {}) >> \o NarrowEach(OrderColumns) \o Relink(OrderKeys)

AlignOrderTimelineForeignKey ==
  << ReturnUnless(<<"order_timelines">>),
     When(<<"fk_order_timelines_order">>, <<Unlink(<<"fk_order_timelines_order">>)>>),
     Do(<<Link(Key("fk_order_timelines_order", "order_timelines", "order_id", "orders"))>>) >>

WalletKeys == <<
  Key("fk_wallet_entries_wallet", "wallet_entries", "wallet_id", "wallets"),
  Key("fk_transactions_wallet", "transactions", "wallet_id", "wallets"),
  Key("fk_reward_appeals_proof", "reward_appeals", "proof_id", "reward_proofs") >>

WalletColumns == <<
  <<"wallets", "id">>, <<"wallet_entries", "wallet_id">>, <<"transactions", "id">>, <<"transactions", "wallet_id">>,
  <<"reward_rules", "id">>, <<"reward_proofs", "id">>, <<"reward_appeals", "id">>, <<"reward_appeals", "proof_id">>,
  <<"user_codes", "id">>, <<"user_follows", "id">>, <<"user_blocks", "id">>, <<"push_settings", "id">>, <<"news", "id">>,
  <<"dev_tokens", "id">>, <<"comments", "id">>, <<"likes", "id">>, <<"rates", "id">>, <<"reports", "id">>,
  <<"saved_searches", "id">> >>

DropAffectedForeignKeys ==
  LET affected == At(WalletKeys) \cup {<<t, "id">> : t \in {"wallets", "transactions", "reward_proofs", "reward_appeals"}}
  IN  DropForeignKeys(affected, affected)

ConvertWalletAndAuxiliaryIdsToBigint ==
  << DropAffectedForeignKeys >> \o Each(WalletColumns, LAMBDA c : When(c, <<Widen(c)>>)) \o Relink(WalletKeys)
UndoConvertWalletAndAuxiliaryIdsToBigint ==
  << DropAffectedForeignKeys >> \o Each(WalletColumns, LAMBDA c : When(c, <<Narrow(c)>>)) \o Relink(WalletKeys)

(* 842: only the precision of an amount.                                    *)
AlignLegacyTransactionAmount == << ReturnUnless(<<"transactions">>) >>

(***************************************************************************)
(* 843-845: rewards, comment media, an index.                               *)
(***************************************************************************)
RuleColumns  == << "achievement_name", "min_ai_score", "max_reward_per_day", "is_active", "icon_url", "description" >>
RuleChecks   == << "chk_reward_rules_reward_coin_non_negative", "chk_reward_rules_min_ai_score_range" >>
ProofColumns == << "ai_model_version", "ai_evaluated_at", "rejection_reason" >>
ProofChecks  == << "chk_reward_proofs_video_storage_key_required", "chk_reward_proofs_ai_score_range",
                   "chk_reward_proofs_reward_coin_non_negative" >>

CompleteRewardRules ==
  << If({<<"reward_rules", "battle_type">>}, {<<"reward_rules", "achievement_type">>},
        <<Move(<<"reward_rules", "battle_type">>, <<"reward_rules", "achievement_type">>)>>),
     Unless(<<"reward_rules", "achievement_type">>, <<AddEmpty(<<"reward_rules", "achievement_type">>)>>),
     Do(<<Fill(<<"reward_rules", "achievement_type">>)>>), Do(<<Require(<<"reward_rules", "achievement_type">>)>>) >>
  \o AddMissingObjects("reward_rules", RuleColumns)
  \o << Do(<<Fill(<<"reward_rules", "reward_coin">>)>>), Do(<<Require(<<"reward_rules", "reward_coin">>)>>) >>
  \o AddMissingObjects("reward_rules", <<"uq_reward_rules_achievement_type">> \o RuleChecks)

CompleteRewardProofs ==
  << If({<<"reward_proofs", "video_url">>}, {<<"reward_proofs", "video_storage_key">>},
        <<Move(<<"reward_proofs", "video_url">>, <<"reward_proofs", "video_storage_key">>)>>),
     Unless(<<"reward_proofs", "video_storage_key">>, <<AddEmpty(<<"reward_proofs", "video_storage_key">>)>>),
     Do(<<Refuse(<<"reward_proofs", "video_storage_key">>)>>), Do(<<Require(<<"reward_proofs", "video_storage_key">>)>>),
     When(<<"reward_proofs", "image_url">>, <<Drop(<<"reward_proofs", "image_url">>)>>) >>
  \o AddMissingObjects("reward_proofs", ProofColumns)
  \o << Unless(<<"reward_proofs", "media_retention_until">>, <<AddEmpty(<<"reward_proofs", "media_retention_until">>)>>),
        Unless(<<"reward_proofs", "media_deleted_at">>, <<Add(<<"reward_proofs", "media_deleted_at">>)>>),
        Do(<<Fill(<<"reward_proofs", "media_retention_until">>)>>),
        Do(<<Require(<<"reward_proofs", "media_retention_until">>)>>),
        Do(<<Fill(<<"reward_proofs", "status">>)>>), Do(<<Require(<<"reward_proofs", "status">>)>>) >>
  \o AddMissingObjects("reward_proofs", <<"idx_reward_proofs_user_created", "idx_reward_proofs_retention">> \o ProofChecks)

CompleteRewardAppeals ==
  << DropForeignKeys({<<"reward_appeals", "proof_id">>}, {}), Do(<<Refuse(<<"reward_appeals", "proof_id">>)>>),
     Do(<<Fill(<<"reward_appeals", "status">>)>>),
     Do(<<Widen(<<"reward_appeals", "proof_id">>)>> \o Required("reward_appeals", <<"proof_id", "status">>)) >>
  \o Relink(<<WalletKeys[3]>>)

CreateAchievementTables ==
  << Unless(<<"proof_achievements">>,
       <<Table("proof_achievements", {"id", "proof_id", "rule_id"}, {"id", "proof_id", "rule_id"},
           {Key("fk_proof_achievements_proof", "proof_achievements", "proof_id", "reward_proofs"),
            Key("fk_proof_achievements_rule", "proof_achievements", "rule_id", "reward_rules")})>>),
     Unless(<<"ai_evaluation_logs">>,
       <<Table("ai_evaluation_logs", {"id", "proof_id"}, {"id", "proof_id"},
           {Key("fk_ai_evaluation_logs_proof", "ai_evaluation_logs", "proof_id", "reward_proofs")})>>) >>

CompleteRewardAiSchema ==
  CompleteRewardRules \o CompleteRewardProofs \o CompleteRewardAppeals \o CreateAchievementTables

DropFound(t, names) == Each(names, LAMBDA c : When(<<t, c>>, <<Drop(<<t, c>>)>>))

UndoCompleteRewardAiSchema ==
  << When(<<"ai_evaluation_logs">>, <<DropTable("ai_evaluation_logs")>>),
     When(<<"proof_achievements">>, <<DropTable("proof_achievements")>>) >>
  \o DropFound("reward_proofs", ProofChecks \o <<"media_deleted_at", "media_retention_until">> \o Reverse(ProofColumns))
  \o << When(<<"reward_proofs", "video_storage_key">>,
             <<Move(<<"reward_proofs", "video_storage_key">>, <<"reward_proofs", "video_url">>)>>) >>
  \o DropFound("reward_rules", RuleChecks \o <<"uq_reward_rules_achievement_type">> \o Reverse(RuleColumns))
  \o << When(<<"reward_rules">>, <<Move(<<"reward_rules", "achievement_type">>, <<"reward_rules", "battle_type">>)>>) >>

CommentObjects == << "uq_comments_user_idempotency", "idx_comments_product_created", "chk_comments_content_length" >>

AddCommentMedia ==
  << Do(<<Refuse(<<"comments">>)>>),
     Do(<<AddEmpty(<<"comments", "idempotency_key">>), AddEmpty(<<"comments", "request_hash">>)>>),
     FillAll("comments", <<"idempotency_key", "request_hash">>),
     Do(Required("comments", <<"idempotency_key", "request_hash">>)) >>
  \o Each(CommentObjects, LAMBDA k : Do(<<Add(<<"comments", k>>)>>))
  \o << Do(<<Table("media_assets", {"id", "uploader_id"}, {"id", "uploader_id"},
               {Key("fk_media_assets_uploader", "media_assets", "uploader_id", "users")})>>),
        Do(<<Table("comment_media", {"id", "comment_id", "media_asset_id"}, {"id", "comment_id", "media_asset_id"},
               {Key("fk_comment_media_comment", "comment_media", "comment_id", "comments"),
                Key("fk_comment_media_asset", "comment_media", "media_asset_id", "media_assets")})>>) >>

UndoAddCommentMedia ==
  << Do(<<DropTable("comment_media")>>), Do(<<DropTable("media_assets")>>) >>
  \o Each(Reverse(CommentObjects), LAMBDA k : Do(<<Drop(<<"comments", k>>)>>))
  \o << Do(<<Drop(<<"comments", "request_hash">>), Drop(<<"comments", "idempotency_key">>)>>) >>

OptimizeCommentEligibility     == << Do(<<Add(<<"orders", "idx_orders_comment_eligibility">>)>>) >>
UndoOptimizeCommentEligibility == << Do(<<Drop(<<"orders", "idx_orders_comment_eligibility">>)>>) >>
=============================================================================
