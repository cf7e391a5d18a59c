------------------------------- MODULE Catalog ------------------------------
(* All commands that send one REST request for each item of their input.    *)
EXTENDS DeviceCatalog, TenantCatalog

Catalog == {
  agents_create, agents_delete, agents_get, agents_update, alarms_create,
  alarms_deletecollection, alarms_get, alarms_list, alarms_update,
  alarms_updatecollection, applications_copy, applications_create,
  applications_createbinary, applications_delete, applications_deleteapplicationbinary,
  applications_get, applications_list, applications_listapplicationbinaries,
  applications_update, auditrecords_create, auditrecords_get, auditrecords_list,
  binaries_create, binaries_delete, binaries_get, binaries_list, binaries_update,
  bulkoperations_create, bulkoperations_delete, bulkoperations_get,
  bulkoperations_list, bulkoperations_listoperations, bulkoperations_update,
  configuration_create, configuration_delete, configuration_get, configuration_update,
  currentapplication_get, currentapplication_listsubscriptions,
  currentapplication_update, currenttenant_get, currenttenant_listapplications,
  currenttenant_version, currentuser_get, currentuser_logout, currentuser_update,
  databroker_get, databroker_list, databroker_update, devicegroups_assigndevice,
  devicegroups_assigngroup, devicegroups_create, devicegroups_delete, devicegroups_get,
  devicegroups_listassets, devicegroups_unassigndevice, devicegroups_unassigngroup,
  devicegroups_update, deviceprofiles_create, deviceprofiles_delete,
  deviceprofiles_get, deviceprofiles_list, deviceprofiles_update,
  deviceregistration_approve, deviceregistration_delete, deviceregistration_get,
  deviceregistration_getcredentials, deviceregistration_list,
  deviceregistration_register, devices_assignchild, devices_create, devices_delete,
  devices_get, devices_getchild, devices_getsupportedmeasurements,
  devices_getsupportedseries, devices_listassets, devices_listchildren,
  devices_setrequiredavailability, devices_unassignchild, devices_update,
  events_create, events_createbinary, events_delete, events_deletebinary,
  events_deletecollection, events_downloadbinary, events_get, events_list,
  events_update, events_updatebinary, firmware_create, firmware_delete, firmware_get,
  firmware_patches_delete, firmware_patches_get, firmware_patches_list,
  firmware_update, firmware_versions_delete, firmware_versions_get,
  firmware_versions_install, firmware_versions_list, identity_create, identity_delete,
  identity_get, identity_list, inventory_additions_assign, inventory_additions_create,
  inventory_additions_list, inventory_additions_unassign, inventory_assets_assign,
  inventory_assets_get, inventory_assets_list, inventory_assets_unassign,
  inventory_create, inventory_delete, inventory_findbytext, inventory_get,
  inventory_list, inventory_update, measurements_create, measurements_delete,
  measurements_deletecollection, measurements_get, measurements_getseries,
  measurements_list, microservices_createbinary, microservices_delete,
  microservices_disable, microservices_enable, microservices_get,
  microservices_getbootstrapuser, microservices_getstatus, microservices_list,
  microservices_update, operations_create, operations_deletecollection, operations_get,
  operations_list, operations_update, retentionrules_create, retentionrules_delete,
  retentionrules_get, retentionrules_list, retentionrules_update, smartgroups_create,
  smartgroups_delete, smartgroups_get, smartgroups_update, software_create,
  software_delete, software_get, software_update, software_versions_delete,
  software_versions_get, software_versions_install, software_versions_list,
  software_versions_uninstall, systemoptions_get, systemoptions_list,
  tenantoptions_create, tenantoptions_delete, tenantoptions_get,
  tenantoptions_getforcategory, tenantoptions_list, tenantoptions_update,
  tenantoptions_updatebulk, tenantoptions_updateedit, tenants_create, tenants_delete,
  tenants_disableapplication, tenants_enableapplication, tenants_get, tenants_list,
  tenants_listreferences, tenants_update, tenantstatistics_list,
  tenantstatistics_listsummaryalltenants, tenantstatistics_listsummaryfortenant,
  usergroups_create, usergroups_delete, usergroups_get, usergroups_getbyname,
  usergroups_list, usergroups_update, userreferences_addusertogroup,
  userreferences_deleteuserfromgroup, userreferences_listgroupmembership,
  userroles_addroletogroup, userroles_addroletouser, userroles_deleterolefromgroup,
  userroles_deleterolefromuser, userroles_getrolereferencecollectionfromgroup,
  userroles_getrolereferencecollectionfromuser, userroles_list, users_create,
  users_delete, users_get, users_getinventoryrole, users_getuserbyname, users_list,
  users_listinventoryroles, users_listusermembership, users_resetuserpassword,
  users_update}
====
