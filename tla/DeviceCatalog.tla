---------------------------- MODULE DeviceCatalog ---------------------------
(* The commands for devices and their data: inventory, alarms, events,     *)
(* measurements, operations, software, firmware and configuration.         *)
EXTENDS CommandRow

(* c8y agents *)
agents_create == Command("POST", "Create", {}, InBody("override", "name", Text, Optional), {"name"})
agents_delete == Command("DELETE", "Delete", {}, InPath("entity", "id", List, Required), {})
agents_get == Command("GET", "Read", {}, InPath("entity", "id", List, Required), {})
agents_update == Command("PUT", "Update", {}, InPath("entity", "id", List, Required), {})

(* c8y alarms *)
alarms_create == Command("POST", "Create", {},
  InBody("entity", "source.id", List, Optional), {"type", "text", "severity", "source.id"})
alarms_deletecollection == Command("DELETE", "Delete", {},
  InQuery("entity", "source", List, Optional), {})
alarms_get == Command("GET", "Read", {}, InPath("ids", "id", List, Required), {})
alarms_list == Command("GET", "Read", {}, InQuery("entity", "source", List, Optional), {})
alarms_update == Command("PUT", "Update", {}, InPath("ids", "id", List, Required), {})
alarms_updatecollection == Command("PUT", "Update", {},
  InQuery("entity", "source", List, Optional), {"status"})

(* c8y binaries *)
binaries_create == Command("POST", "Create", {"file"}, NoPipe, {})
binaries_delete == Command("DELETE", "Delete", {}, InPath("ids", "id", List, Required), {})
binaries_get == Command("GET", "Read", {}, InPath("ids", "id", List, Required), {})
binaries_list == Command("GET", "Read", {}, NoPipe, {})
binaries_update == Command("PUT", "Update", {"file"}, InPath("ids", "id", List, Required), {})

(* c8y bulkoperations *)
bulkoperations_create == Command("POST", "Create", {},
  InBody("entity", "groupId", List, Optional), {"groupId", "operationPrototype"})
bulkoperations_delete == Command("DELETE", "Delete", {}, InPath("ids", "id", List, Required), {})
bulkoperations_get == Command("GET", "Read", {}, InPath("ids", "id", List, Required), {})
bulkoperations_list == Command("GET", "Read", {}, NoPipe, {})
bulkoperations_listoperations == Command("GET", "Read", {},
  InQuery("ids", "bulkOperationId", List, Required), {})
bulkoperations_update == Command("PUT", "Update", {},
  InPath("ids", "id", List, Required), {"creationRamp"})

(* c8y configuration *)
configuration_create == Command("POST", "Create", {},
  InBody("override", "deviceType", Text, Optional), {"name", "url"})
configuration_delete == Command("DELETE", "Delete", {}, InPath("entity", "id", List, Required), {})
configuration_get == Command("GET", "Read", {}, InPath("entity", "id", List, Required), {})
configuration_update == Command("PUT", "Update", {}, InPath("entity", "id", List, Required), {})

(* c8y devicegroups *)
devicegroups_assigndevice == Command("POST", "Create", {"id", "group"},
  InBody("entity", "managedObject.id", List, Required), {})
devicegroups_assigngroup == Command("POST", "Create", {"id", "group"},
  InBody("entity", "managedObject.id", List, Required), {})
devicegroups_create == Command("POST", "Create", {},
  InBody("override", "name", Text, Optional), {"name"})
devicegroups_delete == Command("DELETE", "Delete", {}, InPath("entity", "id", List, Required), {})
devicegroups_get == Command("GET", "Read", {}, InPath("entity", "id", List, Required), {})
devicegroups_listassets == Command("GET", "Read", {}, InPath("entity", "id", List, Required), {})
devicegroups_unassigndevice == Command("DELETE", "Delete", {"group"},
  InPath("entity", "reference", List, Required), {})
devicegroups_unassigngroup == Command("DELETE", "Delete", {"id"},
  InPath("entity", "child", List, Required), {})
devicegroups_update == Command("PUT", "Update", {}, InPath("entity", "id", List, Required), {})

(* c8y deviceprofiles *)
deviceprofiles_create == Command("POST", "Create", {},
  InBody("override", "name", Text, Optional), {"name"})
deviceprofiles_delete == Command("DELETE", "Delete", {}, InPath("entity", "id", List, Required), {})
deviceprofiles_get == Command("GET", "Read", {}, InPath("entity", "id", List, Required), {})
deviceprofiles_list == Command("GET", "Read", {}, InPath("preset", "name", Text, Optional), {})
deviceprofiles_update == Command("PUT", "Update", {}, InPath("entity", "id", List, Required), {})

(* c8y deviceregistration *)
deviceregistration_approve == Command("PUT", "Update", {}, InPath("ids", "id", List, Required), {})
deviceregistration_delete == Command("DELETE", "Delete", {},
  InPath("ids", "id", List, Required), {})
deviceregistration_get == Command("GET", "Read", {}, InPath("ids", "id", List, Required), {})
deviceregistration_getcredentials == Command("POST", "Create", {},
  InBody("ids", "id", List, Required), {})
deviceregistration_list == Command("GET", "Read", {}, NoPipe, {})
deviceregistration_register == Command("POST", "Create", {},
  InBody("ids", "id", List, Required), {})

(* c8y devices *)
devices_assignchild == Command("POST", "Create", {"device"},
  InBody("entity", "managedObject.id", List, Required), {})
devices_create == Command("POST", "Create", {},
  InBody("override", "name", Text, Optional), {"name"})
(* Mutant: PreRunE does not ask for the mode. *)
devices_delete_ungated == Command("DELETE", "Read", {}, InPath("entity", "id", List, Required), {})
devices_delete == Command("DELETE", "Delete", {}, InPath("entity", "id", List, Required), {})
devices_get == Command("GET", "Read", {}, InPath("entity", "id", List, Required), {})
devices_getchild == Command("GET", "Read", {"reference"},
  InPath("entity", "device", List, Required), {})
devices_getsupportedmeasurements == Command("GET", "Read", {},
  InPath("entity", "device", List, Required), {})
devices_getsupportedseries == Command("GET", "Read", {},
  InPath("entity", "device", List, Required), {})
devices_listassets == Command("GET", "Read", {}, InPath("entity", "id", List, Required), {})
devices_listchildren == Command("GET", "Read", {}, InPath("entity", "device", List, Required), {})
devices_setrequiredavailability == Command("PUT", "Update", {"interval"},
  InPath("entity", "device", List, Required), {})
devices_unassignchild == Command("DELETE", "Delete", {"device"},
  InPath("entity", "childDevice", List, Required), {})
devices_update == Command("PUT", "Update", {}, InPath("entity", "id", List, Required), {})

(* c8y events *)
events_create == Command("POST", "Create", {},
  InBody("entity", "source.id", List, Optional), {"type", "text", "source.id"})
events_createbinary == Command("POST", "Create", {"file"}, InPath("ids", "id", List, Required), {})
events_delete == Command("DELETE", "Delete", {}, InPath("ids", "id", List, Required), {})
events_deletebinary == Command("DELETE", "Delete", {}, InPath("ids", "id", List, Required), {})
events_deletecollection == Command("DELETE", "Delete", {},
  InQuery("entity", "source", List, Optional), {})
events_downloadbinary == Command("GET", "Read", {}, InPath("ids", "id", List, Required), {})
events_get == Command("GET", "Read", {}, InPath("ids", "id", List, Required), {})
events_list == Command("GET", "Read", {}, InQuery("entity", "source", List, Optional), {})
events_update == Command("PUT", "Update", {}, InPath("ids", "id", List, Required), {})
events_updatebinary == Command("PUT", "Update", {"file"}, InPath("ids", "id", List, Required), {})

(* c8y firmware *)
firmware_create == Command("POST", "Create", {},
  InBody("override", "c8y_Filter.type", Text, Optional), {"name"})
firmware_delete == Command("DELETE", "Delete", {}, InPath("entity", "id", List, Required), {})
firmware_get == Command("GET", "Read", {}, InPath("entity", "id", List, Required), {})
firmware_patches_delete == Command("DELETE", "Delete", {},
  InPath("entity", "id", List, Required), {})
firmware_patches_get == Command("GET", "Read", {}, InPath("entity", "id", List, Required), {})
firmware_patches_list == Command("GET", "Read", {},
  InPath("entity", "firmware", List, Required), {})
firmware_update == Command("PUT", "Update", {}, InPath("entity", "id", List, Required), {})
firmware_versions_delete == Command("DELETE", "Delete", {},
  InPath("entity", "id", List, Required), {})
firmware_versions_get == Command("GET", "Read", {}, InPath("entity", "id", List, Required), {})
firmware_versions_install == Command("POST", "Create", {"firmware"},
  InBody("entity", "deviceId", List, Optional), {"deviceId", "c8y_Firmware.name", "c8y_Firmware.version"})
firmware_versions_list == Command("GET", "Read", {},
  InPath("entity", "firmware", List, Required), {})

(* c8y identity *)
identity_create == Command("POST", "Create", {},
  InPath("entity", "device", List, Required), {"externalId"})
identity_delete == Command("DELETE", "Delete", {}, InPath("string", "name", Text, Required), {})
identity_get == Command("GET", "Read", {}, InPath("string", "name", Text, Required), {})
identity_list == Command("GET", "Read", {}, InPath("entity", "device", List, Required), {})

(* c8y inventory *)
inventory_additions_assign == Command("POST", "Create", {"id"},
  InBody("override", "managedObject.id", Text, Required), {})
inventory_additions_create == Command("POST", "Create", {}, InPath("ids", "id", List, Required), {})
inventory_additions_list == Command("GET", "Read", {}, InPath("ids", "id", List, Required), {})
inventory_additions_unassign == Command("DELETE", "Delete", {"id"},
  InPath("string", "childId", Text, Required), {})
inventory_assets_assign == Command("POST", "Create", {"id", "group"},
  InBody("entity", "managedObject.id", List, Optional), {"managedObject.id"})
inventory_assets_get == Command("GET", "Read", {"reference"},
  InPath("entity", "asset", List, Required), {})
inventory_assets_list == Command("GET", "Read", {}, InPath("ids", "id", List, Required), {})
inventory_assets_unassign == Command("DELETE", "Delete", {"id"},
  InPath("string", "reference", Text, Optional), {})
inventory_create == Command("POST", "Create", {}, InBody("override", "name", Text, Optional), {})
inventory_delete == Command("DELETE", "Delete", {}, InPath("ids", "id", List, Required), {})
inventory_findbytext == Command("GET", "Read", {}, InQuery("string", "text", Text, Required), {})
inventory_get == Command("GET", "Read", {}, InPath("ids", "id", List, Required), {})
inventory_list == Command("GET", "Read", {}, InQuery("string", "type", Text, Optional), {})
inventory_update == Command("PUT", "Update", {}, InPath("ids", "id", List, Required), {})

(* c8y measurements *)
measurements_create == Command("POST", "Create", {},
  InBody("entity", "source.id", List, Optional), {"type", "source.id"})
measurements_delete == Command("DELETE", "Delete", {}, InPath("ids", "id", List, Required), {})
measurements_deletecollection == Command("DELETE", "Delete", {},
  InQuery("entity", "source", List, Optional), {})
measurements_get == Command("GET", "Read", {}, InPath("ids", "id", List, Required), {})
measurements_getseries == Command("GET", "Read", {},
  InQuery("entity", "source", List, Optional), {})
measurements_list == Command("GET", "Read", {}, InQuery("entity", "source", List, Optional), {})

(* c8y operations *)
operations_create == Command("POST", "Create", {},
  InBody("entity", "deviceId", List, Optional), {"deviceId"})
operations_deletecollection == Command("DELETE", "Delete", {},
  InQuery("entity", "deviceId", List, Optional), {})
operations_get == Command("GET", "Read", {}, InPath("ids", "id", List, Required), {})
operations_list == Command("GET", "Read", {}, InQuery("entity", "deviceId", List, Optional), {})
operations_update == Command("PUT", "Update", {}, InPath("ids", "id", List, Required), {"status"})

(* c8y smartgroups *)
smartgroups_create == Command("POST", "Create", {},
  InBody("override", "c8y_DeviceQueryString", Text, Optional), {"name"})
smartgroups_delete == Command("DELETE", "Delete", {}, InPath("entity", "id", List, Required), {})
smartgroups_get == Command("GET", "Read", {}, InPath("entity", "id", List, Required), {})
smartgroups_update == Command("PUT", "Update", {}, InPath("entity", "id", List, Required), {})

(* c8y software *)
software_create == Command("POST", "Create", {},
  InBody("override", "c8y_Filter.type", Text, Optional), {"name"})
software_delete == Command("DELETE", "Delete", {}, InPath("entity", "id", List, Required), {})
software_get == Command("GET", "Read", {}, InPath("entity", "id", List, Required), {})
software_update == Command("PUT", "Update", {}, InPath("entity", "id", List, Required), {})
software_versions_delete == Command("DELETE", "Delete", {},
  InPath("entity", "id", List, Required), {})
software_versions_get == Command("GET", "Read", {}, InPath("entity", "id", List, Required), {})
software_versions_install == Command("POST", "Create", {"software"},
  InBody("entity", "deviceId", List, Optional), {"deviceId", "c8y_SoftwareUpdate.0.name", "c8y_SoftwareUpdate.0.version", "c8y_SoftwareUpdate.0.action"})
software_versions_list == Command("GET", "Read", {},
  InPath("entity", "software", List, Optional), {})
software_versions_uninstall == Command("POST", "Create", {"software"},
  InBody("entity", "deviceId", List, Optional), {"deviceId", "c8y_SoftwareUpdate.0.name", "c8y_SoftwareUpdate.0.action"})
====
